---- MODULE Spec2Model ----
(***************************************************************************)
(* Goldfish journaling assistant: the knowledge-graph store                *)
(* (services/neo4j_service.py), the message pipeline                       *)
(* (services/agent_service.py, services/rag_service.py,                    *)
(* services/nlu_service.py), the chat session handlers (app.py), the       *)
(* journal table (services/journal_service.py) and the search and the      *)
(* chunking of services/embedding_service.py.                              *)
(*                                                                         *)
(* Text values are sequences of one-character strings so that lower(),     *)
(* strip() and substring tests are computed, not assumed.                  *)
(***************************************************************************)
EXTENDS Integers, Sequences, FiniteSets, TLC

(***************************************************************************)
(* Bounds of the model                                                     *)
(***************************************************************************)
\* number of graph-store operations in one behaviour
MaxOps == 2
\* largest number of consecutive connection errors the backend produces
MaxConnFails == 3
\* number of accepted chat requests between two resets of the session
MaxChats == 11

(***************************************************************************)
(* Text helpers                                                            *)
(***************************************************************************)
\* str.lower() on one character
LowerChar(c) ==
  CASE c = "A" -> "a"
    [] c = "B" -> "b"
    [] c = "H" -> "h"
    [] c = "I" -> "i"
    [] c = "L" -> "l"
    [] c = "O" -> "o"
    [] c = "S" -> "s"
    [] OTHER -> c

\* str.lower()
Lower(s) == [i \in 1..Len(s) |-> LowerChar(s[i])]

RECURSIVE LStrip(_)
\* leading whitespace removed
LStrip(s) ==
  IF s # <<>> /\ Head(s) \in {" ", "\n"} THEN LStrip(Tail(s)) ELSE s

RECURSIVE RStrip(_)
\* trailing whitespace removed
RStrip(s) ==
  IF s # <<>> /\ s[Len(s)] \in {" ", "\n"}
  THEN RStrip(SubSeq(s, 1, Len(s) - 1)) ELSE s

\* str.strip()
Strip(s) == RStrip(LStrip(s))

\* `p in s` for strings
Contains(s, p) ==
  \E i \in 0..(Len(s) - Len(p)) : SubSeq(s, i + 1, i + Len(p)) = p

(***************************************************************************)
(* Knowledge graph: nodes and edges as the backend stores them.  Every     *)
(* node and edge has its own identity (id), so duplicates are              *)
(* representable.                                                          *)
(***************************************************************************)
NoText == <<>>

\* a node with every property unset
BlankNode(id, label) ==
  [id |-> id, label |-> label, name |-> NoText, original_name |-> NoText,
   valence |-> "", intensity |-> 0, user_id |-> "", entry_id |-> "",
   summary |-> "", timestamp |-> 0]

EmptyGraph == [nodes |-> {}, edges |-> {}]

\* identity given to the next created node / edge (nothing is ever deleted)
FreshId(S) == Cardinality(S) + 1

\* MATCH (x:label {name: name})
MatchByName(nodes, label, name) ==
  {n \in nodes : n.label = label /\ n.name = name}

\* MATCH (e:Entry {id: entry_id, user_id: user_id})
MatchEntry(nodes, entry_id, user_id) ==
  {n \in nodes : n.label = "Entry" /\ n.entry_id = entry_id /\ n.user_id = user_id}

RECURSIVE MergeEdgesCreate(_, _, _)
\* MergeEdges with CREATE in place of MERGE: an edge is added for every pair
MergeEdgesCreate(edges, kind, pairs) ==
  IF pairs = {} THEN edges
  ELSE LET p == CHOOSE q \in pairs : TRUE
       IN MergeEdgesCreate(edges \cup {[id |-> FreshId(edges), kind |-> kind,
                                        src |-> p[1], dst |-> p[2],
                                        type |-> NoText, created_at |-> 0]},
                           kind, pairs \ {p})

RECURSIVE MergeEdges(_, _, _)
\* MERGE (a)-[:kind]->(b) for every bound pair <<a, b>>: an edge is created
\* only where none of that kind joins the pair
MergeEdges(edges, kind, pairs) ==
  IF pairs = {} THEN edges
  ELSE LET p == CHOOSE q \in pairs : TRUE
           have == \E e \in edges : e.kind = kind /\ e.src = p[1] /\ e.dst = p[2]
           e1 == IF have THEN edges
                 ELSE edges \cup {[id |-> FreshId(edges), kind |-> kind,
                                   src |-> p[1], dst |-> p[2],
                                   type |-> NoText, created_at |-> 0]}
       IN MergeEdges(e1, kind, pairs \ {p})

\* MERGE (u:User {user_id}) MERGE (e:Entry {id}) SET e.summary, e.user_id,
\* e.timestamp MERGE (u)-[:AUTHORED]->(e)
MergeBase(g, user_id, entry_id, summary, now) ==
  LET us0 == {n \in g.nodes : n.label = "User" /\ n.user_id = user_id}
      newU == [BlankNode(FreshId(g.nodes), "User") EXCEPT !.user_id = user_id]
      n1 == IF us0 = {} THEN g.nodes \cup {newU} ELSE g.nodes
      us == IF us0 = {} THEN {newU} ELSE us0
      es0 == {n \in n1 : n.label = "Entry" /\ n.entry_id = entry_id}
      newE == [BlankNode(FreshId(n1), "Entry") EXCEPT !.entry_id = entry_id]
      n2 == IF es0 = {} THEN n1 \cup {newE} ELSE n1
      esIds == IF es0 = {} THEN {newE.id} ELSE {n.id : n \in es0}
      n3 == {IF n.id \in esIds
             THEN [n EXCEPT !.summary = summary, !.user_id = user_id,
                            !.timestamp = now]
             ELSE n : n \in n2}
  IN [nodes |-> n3,
      edges |-> MergeEdges(g.edges, "AUTHORED",
                           {<<u.id, e>> : u \in us, e \in esIds})]

(***************************************************************************)
(* _insert_graph_tx: entities                                              *)
(***************************************************************************)
\* entity.get("type", "").upper() over the type vocabulary of the callers
UpperType(t) ==
  CASE t \in {"PERSON", "person", "Person"} -> "PERSON"
    [] t \in {"ORG", "org"} -> "ORG"
    [] t \in {"EVENT", "event"} -> "EVENT"
    [] t \in {"PLACE", "place"} -> "PLACE"
    [] t \in {"DATE", "date"} -> "DATE"
    [] t \in {"TOPIC", "topic"} -> "TOPIC"
    [] OTHER -> t

\* entity_type_map.get(entity_type); "" stands for None
entity_type_map(t) ==
  CASE t = "PERSON" -> "Person"
    [] t = "ORG" -> "Organization"
    [] t = "EVENT" -> "Event"
    [] t = "PLACE" -> "Place"
    [] t = "DATE" -> "Date"
    [] OTHER -> ""

RECURSIVE Dedup(_)
\* first occurrences of a sequence, in order
Dedup(s) ==
  IF s = <<>> THEN <<>>
  ELSE LET r == Dedup(SubSeq(s, 1, Len(s) - 1))
           x == s[Len(s)]
       IN IF \E i \in 1..Len(r) : r[i] = x THEN r ELSE Append(r, x)

RECURSIVE Concat(_)
\* concatenation of a sequence of sequences
Concat(ss) == IF ss = <<>> THEN <<>> ELSE Head(ss) \o Concat(Tail(ss))

\* the <<label, name>> pairs the entity loop writes, in the order it writes
\* them: entities grouped by label (labels in order of first appearance,
\* names in order, exact duplicates dropped), events added to "Event"
entities_by_type(entities, events) ==
  LET ent == [i \in 1..Len(entities) |->
                <<entity_type_map(UpperType(entities[i].type)),
                  Strip(entities[i].name)>>]
      evt == [i \in 1..Len(events) |-> <<"Event", Strip(events[i].name)>>]
      kept == SelectSeq(ent, LAMBDA p : p[2] # NoText /\ p[1] # "")
              \o SelectSeq(evt, LAMBDA p : p[2] # NoText)
      uniq == Dedup(kept)
      labels == Dedup([i \in 1..Len(uniq) |-> uniq[i][1]])
  IN Concat([i \in 1..Len(labels) |->
               SelectSeq(uniq, LAMBDA p : p[1] = labels[i])])

\* the entity statement, wrongly setting original_name without COALESCE
MergeEntityOverwriting(g, label, name, entry_id, user_id) ==
  LET name_lower == Strip(Lower(name))
      xs0 == MatchByName(g.nodes, label, name_lower)
      newX == [BlankNode(FreshId(g.nodes), label) EXCEPT !.name = name_lower]
      n1 == IF xs0 = {} THEN g.nodes \cup {newX} ELSE g.nodes
      xIds == IF xs0 = {} THEN {newX.id} ELSE {n.id : n \in xs0}
      n2 == {IF n.id \in xIds
             THEN [n EXCEPT !.original_name = name] ELSE n : n \in n1}
      es == MatchEntry(n2, entry_id, user_id)
  IN [nodes |-> n2,
      edges |-> MergeEdges(g.edges, "MENTIONS",
                           {<<e.id, x>> : e \in es, x \in xIds})]

\* MergeEntity that merges on the name as submitted, not on its lowercase
MergeEntityCaseSensitive(g, label, name, entry_id, user_id) ==
  LET xs0 == MatchByName(g.nodes, label, Strip(name))
      newX == [BlankNode(FreshId(g.nodes), label) EXCEPT !.name = Strip(name)]
      n1 == IF xs0 = {} THEN g.nodes \cup {newX} ELSE g.nodes
      xIds == IF xs0 = {} THEN {newX.id} ELSE {n.id : n \in xs0}
      n2 == {IF n.id \in xIds /\ n.original_name = NoText
             THEN [n EXCEPT !.original_name = name] ELSE n : n \in n1}
      es == MatchEntry(n2, entry_id, user_id)
  IN [nodes |-> n2,
      edges |-> MergeEdges(g.edges, "MENTIONS",
                           {<<e.id, x>> : e \in es, x \in xIds})]

\* MERGE (x:label {name: name_lower}) SET x.original_name =
\* COALESCE(x.original_name, name) WITH x MATCH (e:Entry {id, user_id})
\* MERGE (e)-[:MENTIONS]->(x)
MergeEntity(g, label, name, entry_id, user_id) ==
  LET name_lower == Strip(Lower(name))
      xs0 == MatchByName(g.nodes, label, name_lower)
      newX == [BlankNode(FreshId(g.nodes), label) EXCEPT !.name = name_lower]
      n1 == IF xs0 = {} THEN g.nodes \cup {newX} ELSE g.nodes
      xIds == IF xs0 = {} THEN {newX.id} ELSE {n.id : n \in xs0}
      n2 == {IF n.id \in xIds /\ n.original_name = NoText
             THEN [n EXCEPT !.original_name = name] ELSE n : n \in n1}
      es == MatchEntry(n2, entry_id, user_id)
  IN [nodes |-> n2,
      edges |-> MergeEdges(g.edges, "MENTIONS",
                           {<<e.id, x>> : e \in es, x \in xIds})]

RECURSIVE InsertEntities(_, _, _, _, _)
\* the entity loop over entities_by_type; the statement of pair number bad
\* raises (0: none does), which the loop logs and skips.  hit: a statement
\* raised
InsertEntities(g, pairs, entry_id, user_id, bad) ==
  IF pairs = <<>> THEN [g |-> g, count |-> 0, hit |-> FALSE]
  ELSE LET Counted(rest) == [rest EXCEPT !.count = @ + 1]
           Hit(rest) == [rest EXCEPT !.hit = TRUE]
           Rest(g1) ==
             InsertEntities(g1, Tail(pairs), entry_id, user_id,
                            IF bad > 1 THEN bad - 1 ELSE 0)
       IN IF bad = 1 THEN Hit(Rest(g))
          ELSE Counted(Rest(MergeEntity(g, Head(pairs)[1], Head(pairs)[2],
                                        entry_id, user_id)))

(***************************************************************************)
(* _insert_graph_tx: emotions                                              *)
(*                                                                         *)
(* An intensity as the caller supplies it:                                 *)
(*   kind "int"     an integer v                                           *)
(*   kind "float"   a finite float, v in tenths (47 is 4.7)                *)
(*   kind "str"     a string s                                             *)
(*   kind "null"    None                                                   *)
(*   kind "nan", "inf"   the floats nan and inf (json.loads accepts both)  *)
(*   kind "missing" the key is absent                                      *)
(***************************************************************************)
IntVal(v) == [kind |-> "int", v |-> v, s |-> NoText]
FloatVal(tenths) == [kind |-> "float", v |-> tenths, s |-> NoText]
StrVal(s) == [kind |-> "str", v |-> 0, s |-> s]
NullVal == [kind |-> "null", v |-> 0, s |-> NoText]
NanVal == [kind |-> "nan", v |-> 0, s |-> NoText]
InfVal == [kind |-> "inf", v |-> 0, s |-> NoText]
Missing == [kind |-> "missing", v |-> 0, s |-> NoText]

Digits == {"0", "1", "2", "3", "4", "5", "6", "7", "8", "9"}

DigitVal(c) ==
  CASE c = "0" -> 0 [] c = "1" -> 1 [] c = "2" -> 2 [] c = "3" -> 3
    [] c = "4" -> 4 [] c = "5" -> 5 [] c = "6" -> 6 [] c = "7" -> 7
    [] c = "8" -> 8 [] c = "9" -> 9

RECURSIVE DigitsVal(_)
\* value of a non-empty digit string
DigitsVal(s) ==
  IF Len(s) = 1 THEN DigitVal(s[1])
  ELSE 10 * DigitsVal(SubSeq(s, 1, Len(s) - 1)) + DigitVal(s[Len(s)])

\* truncation toward zero of a float given in tenths
Trunc(tenths) == IF tenths >= 0 THEN tenths \div 10 ELSE -((-tenths) \div 10)

\* int(x): the value, or the exception it raises
PyInt(x) ==
  CASE x.kind = "int" -> [ok |-> TRUE, v |-> x.v, err |-> ""]
    [] x.kind = "float" -> [ok |-> TRUE, v |-> Trunc(x.v), err |-> ""]
    [] x.kind = "str" ->
         LET t == Strip(x.s)
             signed == t # <<>> /\ Head(t) \in {"-", "+"}
             d == IF signed THEN Tail(t) ELSE t
         IN IF d # <<>> /\ \A i \in 1..Len(d) : d[i] \in Digits
            THEN [ok |-> TRUE,
                  v |-> IF signed /\ Head(t) = "-" THEN -DigitsVal(d)
                        ELSE DigitsVal(d),
                  err |-> ""]
            ELSE [ok |-> FALSE, v |-> 0, err |-> "ValueError"]
    [] x.kind = "null" -> [ok |-> FALSE, v |-> 0, err |-> "TypeError"]
    [] x.kind = "nan" -> [ok |-> FALSE, v |-> 0, err |-> "ValueError"]
    [] x.kind = "inf" -> [ok |-> FALSE, v |-> 0, err |-> "OverflowError"]

Min(a, b) == IF a < b THEN a ELSE b
Max(a, b) == IF a > b THEN a ELSE b

DefaultIntensity == 3
MinIntensity == 1
MaxIntensity == 5

\* ValidateIntensity without the clamp to 1..5
ValidateIntensityUnclamped(x) ==
  LET Checked(r) ==
        IF r.ok THEN [ok |-> TRUE, v |-> r.v]
        ELSE IF r.err \in {"ValueError", "TypeError"}
             THEN [ok |-> TRUE, v |-> DefaultIntensity]
             ELSE [ok |-> FALSE, v |-> 0]
  IN Checked(PyInt(IF x.kind = "missing" THEN IntVal(DefaultIntensity) ELSE x))

\* ValidateIntensity that replaces an out-of-range value by the default
ValidateIntensityDefaulting(x) ==
  LET Checked(r) ==
        IF r.ok
        THEN [ok |-> TRUE,
              v |-> IF r.v \in MinIntensity..MaxIntensity THEN r.v
                    ELSE DefaultIntensity]
        ELSE IF r.err \in {"ValueError", "TypeError"}
             THEN [ok |-> TRUE, v |-> DefaultIntensity]
             ELSE [ok |-> FALSE, v |-> 0]
  IN Checked(PyInt(IF x.kind = "missing" THEN IntVal(DefaultIntensity) ELSE x))

\* intensity = emotion.get("intensity", 3);
\* try: intensity = max(1, min(5, int(intensity)))
\* except (ValueError, TypeError): intensity = 3
\* Any other exception leaves the loop and the transaction function.
ValidateIntensity(x) ==
  LET Checked(r) ==
        IF r.ok
        THEN [ok |-> TRUE, v |-> Max(MinIntensity, Min(MaxIntensity, r.v))]
        ELSE IF r.err \in {"ValueError", "TypeError"}
             THEN [ok |-> TRUE, v |-> DefaultIntensity]
             ELSE [ok |-> FALSE, v |-> 0]
  IN Checked(PyInt(IF x.kind = "missing" THEN IntVal(DefaultIntensity) ELSE x))

\* MERGE (em:Emotion {name: name_lower}) SET em.valence, em.intensity,
\* em.original_name = COALESCE(em.original_name, original_name) WITH em
\* MATCH (e:Entry {id, user_id}) MERGE (e)-[:FEELS]->(em)
MergeEmotion(g, emotion_type, valence, intensity, entry_id, user_id) ==
  LET name_lower == Strip(Lower(emotion_type))
      xs0 == MatchByName(g.nodes, "Emotion", name_lower)
      newX == [BlankNode(FreshId(g.nodes), "Emotion") EXCEPT !.name = name_lower]
      n1 == IF xs0 = {} THEN g.nodes \cup {newX} ELSE g.nodes
      xIds == IF xs0 = {} THEN {newX.id} ELSE {n.id : n \in xs0}
      n2 == {IF n.id \in xIds
             THEN [n EXCEPT !.valence = valence, !.intensity = intensity,
                            !.original_name =
                              IF n.original_name = NoText THEN emotion_type
                              ELSE n.original_name]
             ELSE n : n \in n1}
      es == MatchEntry(n2, entry_id, user_id)
  IN [nodes |-> n2,
      edges |-> MergeEdges(g.edges, "FEELS",
                           {<<e.id, x>> : e \in es, x \in xIds})]

RECURSIVE InsertEmotions(_, _, _, _, _)
\* the emotion loop; the statement of emotion number bad raises, which the
\* loop logs and skips; ok = FALSE when an exception left the loop
InsertEmotions(g, emotions, entry_id, user_id, bad) ==
  IF emotions = <<>> THEN [ok |-> TRUE, g |-> g, count |-> 0, hit |-> FALSE]
  ELSE LET Counted(rest) == [rest EXCEPT !.count = @ + 1]
           Hit(rest) == [rest EXCEPT !.hit = TRUE]
           Rest(g1) ==
             InsertEmotions(g1, Tail(emotions), entry_id, user_id,
                            Max(0, bad - 1))
           Step(em, emotion_type, iv) ==
             IF emotion_type = NoText THEN Rest(g)
             ELSE IF ~iv.ok
             THEN [ok |-> FALSE, g |-> g, count |-> 0, hit |-> FALSE]
             ELSE IF bad = 1 THEN Hit(Rest(g))
             ELSE Counted(Rest(MergeEmotion(g, emotion_type, em.valence, iv.v,
                                            entry_id, user_id)))
       IN Step(Head(emotions), Strip(Head(emotions).type),
               ValidateIntensity(Head(emotions).intensity))

(***************************************************************************)
(* _insert_graph_tx: relationships                                         *)
(***************************************************************************)
RelatedTo == <<"r", "e", "l", "a", "t", "e", "d", "_", "t", "o">>

\* (rel.get("from_type") or "").strip().lower() over the type vocabulary
LowerType(t) ==
  CASE t \in {"person", "Person", "PERSON", " person "} -> "person"
    [] t \in {"organization", "Organization"} -> "organization"
    [] t \in {"org", "ORG"} -> "org"
    [] t \in {"event", "Event"} -> "event"
    [] t \in {"place", "Place"} -> "place"
    [] t \in {"date", "Date"} -> "date"
    [] t \in {"user", "User"} -> "user"
    [] OTHER -> t

\* type_label_map.get(raw); "" stands for None
type_label_map(raw) ==
  CASE raw = "person" -> "Person"
    [] raw = "organization" -> "Organization"
    [] raw = "org" -> "Organization"
    [] raw = "event" -> "Event"
    [] raw = "place" -> "Place"
    [] raw = "date" -> "Date"
    [] raw = "user" -> "User"
    [] OTHER -> ""

\* entity_name_to_label.get(name_lower): the label of the last entity of the
\* call with that lowercased name and a mapped type; "" stands for None
entity_name_to_label(entities, name_lower) ==
  LET hits == {i \in 1..Len(entities) :
                 /\ Lower(Strip(entities[i].name)) = name_lower
                 /\ Lower(Strip(entities[i].name)) # NoText
                 /\ entity_type_map(UpperType(entities[i].type)) # ""}
  IN IF hits = {} THEN ""
     ELSE LET last == CHOOSE i \in hits : \A j \in hits : j <= i
          IN entity_type_map(UpperType(entities[last].type))

\* rel.get("from") or rel.get("source") or "", stripped
RelSource(rel) == Strip(IF rel.from # NoText THEN rel.from ELSE rel.source)
\* rel.get("to") or rel.get("target") or "", stripped
RelTarget(rel) == Strip(IF rel.to # NoText THEN rel.to ELSE rel.target)
\* (rel.get("type") or "related_to").strip()
RelType(rel) == Strip(IF rel.type # NoText THEN rel.type ELSE RelatedTo)

\* FromLabel that takes an unresolved endpoint for a person
FromLabelDefaultPerson(rel, entities) ==
  LET explicit == type_label_map(LowerType(rel.from_type))
      byName == entity_name_to_label(entities, Strip(Lower(RelSource(rel))))
  IN IF explicit # "" THEN explicit
     ELSE IF byName # "" THEN byName ELSE "Person"

\* the label of the from-endpoint: explicit type first, else by name match
FromLabel(rel, entities) ==
  LET explicit == type_label_map(LowerType(rel.from_type))
  IN IF explicit # "" THEN explicit
     ELSE entity_name_to_label(entities, Strip(Lower(RelSource(rel))))

\* the label of the to-endpoint
ToLabel(rel, entities) ==
  LET explicit == type_label_map(LowerType(rel.to_type))
  IN IF explicit # "" THEN explicit
     ELSE entity_name_to_label(entities, Strip(Lower(RelTarget(rel))))

\* the relationship is dropped before any query is run
RelSkipped(rel, entities) ==
  \/ RelSource(rel) = NoText
  \/ RelTarget(rel) = NoText
  \/ FromLabel(rel, entities) = ""
  \/ ToLabel(rel, entities) = ""

\* the relationship statement, wrongly creating an edge where one joins
\* the pair already
MergeRelationshipCreating(g, from_label, from_lower, to_label, to_lower, type, now) ==
  LET as == MatchByName(g.nodes, from_label, from_lower)
      bs == MatchByName(g.nodes, to_label, to_lower)
      pairs == {<<a.id, b.id>> : a \in as, b \in bs}
      e1 == MergeEdgesCreate(g.edges, "RELATES_TO", pairs)
      e2 == {IF e.kind = "RELATES_TO" /\ <<e.src, e.dst>> \in pairs
             THEN [e EXCEPT !.type = type, !.created_at = now] ELSE e : e \in e1}
  IN [g |-> [nodes |-> g.nodes, edges |-> e2], found |-> pairs # {}]

\* MATCH (a:from_label {name: from_lower}), (b:to_label {name: to_lower})
\* MERGE (a)-[r:RELATES_TO]->(b) SET r.type = type, r.created_at = datetime()
\* RETURN r
MergeRelationship(g, from_label, from_lower, to_label, to_lower, type, now) ==
  LET as == MatchByName(g.nodes, from_label, from_lower)
      bs == MatchByName(g.nodes, to_label, to_lower)
      pairs == {<<a.id, b.id>> : a \in as, b \in bs}
      e1 == MergeEdges(g.edges, "RELATES_TO", pairs)
      e2 == {IF e.kind = "RELATES_TO" /\ <<e.src, e.dst>> \in pairs
             THEN [e EXCEPT !.type = type, !.created_at = now] ELSE e : e \in e1}
  IN [g |-> [nodes |-> g.nodes, edges |-> e2], found |-> pairs # {}]

RECURSIVE InsertRelationships(_, _, _, _, _)
\* the relationship loop; the statement of relationship number bad raises,
\* which the loop logs and skips
InsertRelationships(g, rels, entities, now, bad) ==
  IF rels = <<>> THEN [g |-> g, count |-> 0, hit |-> FALSE]
  ELSE LET Counted(rest, found) ==
             [rest EXCEPT !.count = @ + (IF found THEN 1 ELSE 0)]
           Hit(rest) == [rest EXCEPT !.hit = TRUE]
           Rest(g1) ==
             InsertRelationships(g1, Tail(rels), entities, now,
                                 Max(0, bad - 1))
           Merged(m) == Counted(Rest(m.g), m.found)
           Step(rel, source, target, from_label, to_label) ==
             IF source = NoText \/ target = NoText \/ from_label = ""
                \/ to_label = ""
             THEN Rest(g)
             ELSE IF bad = 1 THEN Hit(Rest(g))
             ELSE Merged(MergeRelationship(g, from_label,
                                           Strip(Lower(source)), to_label,
                                           Strip(Lower(target)),
                                           RelType(rel), now))
       IN Step(Head(rels), RelSource(Head(rels)), RelTarget(Head(rels)),
               FromLabel(Head(rels), entities), ToLabel(Head(rels), entities))

(***************************************************************************)
(* _insert_graph_tx as a whole.  ok = FALSE: the function raised err and   *)
(* the transaction is rolled back.  out is what the base statement meets   *)
(* ("ok", "connection", "error"); fault names the statement of a loop that *)
(* raises: [at |-> "none" | "entity" | "emotion" | "relationship",         *)
(* idx |-> its position in the loop, tx |-> what the transaction is after  *)
(* a statement raised in it: "usable", or "failed" (the commit raises)].   *)
(***************************************************************************)
NoFault == [at |-> "none", idx |-> 0, tx |-> "usable"]

\* a base statement whose failure is swallowed
BaseStatementSwallowed(g, a, now, out) ==
  [ok |-> TRUE, err |-> "",
   g |-> IF out = "ok"
         THEN MergeBase(g, a.user_id, a.entry_id, a.summary, now) ELSE g]

\* tx.run of the base statement
BaseStatement(g, a, now, out) ==
  IF out = "ok"
  THEN [ok |-> TRUE, err |-> "",
        g |-> MergeBase(g, a.user_id, a.entry_id, a.summary, now)]
  ELSE [ok |-> FALSE, err |-> out, g |-> g]

_insert_graph_tx(g, a, now, out, fault) ==
  LET Bad(loop) == IF fault.at = loop THEN fault.idx ELSE 0
      Raised(err) ==
        [ok |-> FALSE, err |-> err, g |-> g, hit |-> FALSE,
         entities_inserted |-> 0, emotions_inserted |-> 0,
         relationships_inserted |-> 0]
      Result(en, em, rl) ==
        [ok |-> TRUE, err |-> "", g |-> rl.g,
         hit |-> en.hit \/ em.hit \/ rl.hit,
         entities_inserted |-> en.count, emotions_inserted |-> em.count,
         relationships_inserted |-> rl.count]
      Relationships(en, em) ==
        IF ~em.ok THEN Raised("OverflowError")
        ELSE Result(en, em,
                    InsertRelationships(em.g, a.relationships, a.entities,
                                        now, Bad("relationship")))
      Emotions(en) ==
        Relationships(en, InsertEmotions(en.g, a.emotions, a.entry_id,
                                         a.user_id, Bad("emotion")))
      Entities(base) ==
        IF ~base.ok THEN Raised(base.err)
        ELSE Emotions(InsertEntities(base.g,
                                     entities_by_type(a.entities, a.events),
                                     a.entry_id, a.user_id, Bad("entity")))
  IN Entities(BaseStatement(g, a, now, out))

(***************************************************************************)
(* Connection handling.  driver is "up" (a driver object) or "none".       *)
(* The backend's behaviour during one caller invocation is an input:       *)
(*   connFails     the first connFails attempts of the operation fail      *)
(*                 with a connection error                                 *)
(*   final         what the next attempt does: "ok", or "error" (a         *)
(*                 failure whose message does not mention a connection)    *)
(*   reconnFailAt  the reconnection that fails (0: every one succeeds)     *)
(*   pingFails     the liveness probe of _ensure_connection fails          *)
(*   countFails    the entry-count query of the context read fails         *)
(*   fault         the statement of a write's loop that raises             *)
(***************************************************************************)
\* what attempt number k of the operation meets
AttemptOutcome(env, k) ==
  IF k <= env.connFails THEN "connection" ELSE env.final

\* "defunct connection" in error_msg or "connection" in error_msg.lower()
IsConnectionError(outcome) == outcome = "connection"

\* _initialize_driver that never notices a failed connection test
_initialize_driverOptimistic(env, k) == "up"

\* _initialize_driver after the k-th failed attempt: the new driver, or
\* "none" when the connection test fails
_initialize_driver(env, k) == IF env.reconnFailAt = k THEN "none" ELSE "up"

RECURSIVE insert_entities_and_relationships(_, _, _, _, _, _)
\* insert_entities_and_relationships, attempt k of one caller invocation
insert_entities_and_relationships(driver, g, a, env, now, k) ==
  LET failed(msg, d, n) ==
        [success |-> FALSE, error |-> msg, g |-> g, driver |-> d,
         attempts |-> n, entities_inserted |-> 0,
         emotions_inserted |-> 0, relationships_inserted |-> 0]
      Reconnected(d) ==
        IF d # "none"
        THEN insert_entities_and_relationships(d, g, a, env, now, k + 1)
        ELSE failed("connection", d, k)
      \* session.execute_write: commit, or roll back and raise
      Attempt(tx) ==
        IF tx.ok /\ ~(tx.hit /\ env.fault.tx = "failed")
        THEN [success |-> TRUE, error |-> "", g |-> tx.g, driver |-> driver,
              attempts |-> k, entities_inserted |-> tx.entities_inserted,
              emotions_inserted |-> tx.emotions_inserted,
              relationships_inserted |-> tx.relationships_inserted]
        ELSE IF ~tx.ok /\ IsConnectionError(tx.err)
        THEN Reconnected(_initialize_driver(env, k))
        ELSE failed(IF tx.ok THEN "error" ELSE tx.err, driver, k)
  IN IF driver = "none" THEN failed("Neo4j not configured", driver, k - 1)
     ELSE Attempt(_insert_graph_tx(g, a, now, AttemptOutcome(env, k),
                                   env.fault))

(***************************************************************************)
(* get_user_graph_context                                                  *)
(***************************************************************************)
\* _ensure_connection on entry: <<usable, driver>>
_ensure_connection(driver, env) ==
  IF driver = "none" THEN <<FALSE, IF env.ping = "lost" THEN "none" ELSE "up">>
  ELSE IF env.ping = "ok" THEN <<TRUE, driver>>
  ELSE IF env.ping = "recovered" THEN <<TRUE, "up">>
  ELSE <<FALSE, "none">>

\* query_text.lower().strip()[:50]
QueryMaxLen == 50

\* labels the direct-match step of the context query accepts
MatchLabels == {"Person", "Organization", "Event", "Place", "Emotion"}

\* names of the nodes the query text matches directly, and of the nodes one
\* RELATES_TO hop away from them in either direction
relevant_names(g, query_lower) ==
  LET direct == {n \in g.nodes : n.label \in MatchLabels
                                 /\ Contains(n.name, query_lower)}
      ids == {n.id : n \in direct}
      outb == {n \in g.nodes : \E e \in g.edges :
                 e.kind = "RELATES_TO" /\ e.src \in ids /\ e.dst = n.id}
      inb == {n \in g.nodes : \E e \in g.edges :
                 e.kind = "RELATES_TO" /\ e.dst \in ids /\ e.src = n.id}
  IN {n.name : n \in direct \cup outb \cup inb}

\* the row of the context query for one Entry node
EntryRow(g, e, names, query_lower) ==
  LET mentioned == {n \in g.nodes :
                      /\ \E m \in g.edges :
                           m.kind = "MENTIONS" /\ m.src = e.id /\ m.dst = n.id
                      /\ n.name \in names}
      felt == {n \in g.nodes :
                 /\ n.label = "Emotion"
                 /\ \E f \in g.edges :
                      f.kind = "FEELS" /\ f.src = e.id /\ f.dst = n.id
                 /\ (n.name \in names \/ Contains(n.name, query_lower))}
  IN [entry_id |-> e.entry_id, summary |-> e.summary,
      timestamp |-> e.timestamp,
      emotions |-> {n.name : n \in felt},
      entities |-> {n.name : n \in mentioned},
      types |-> {n.label : n \in mentioned}]

RECURSIVE NewestFirst(_)
\* ORDER BY timestamp DESC
NewestFirst(rows) ==
  IF rows = {} THEN <<>>
  ELSE LET r == CHOOSE x \in rows : \A y \in rows : y.timestamp <= x.timestamp
       IN <<r>> \o NewestFirst(rows \ {r})

\* the rows the context query returns
GraphContextQuery(g, user_id, query_text, limit) ==
  LET query_lower == SubSeq(Strip(Lower(query_text)), 1,
                            Min(QueryMaxLen, Len(Strip(Lower(query_text)))))
      names == relevant_names(g, query_lower)
      rows == {EntryRow(g, e, names, query_lower) :
                 e \in {n \in g.nodes : n.label = "Entry" /\ n.user_id = user_id}}
      kept == {r \in rows : r.entities # {} \/ r.emotions # {}}
      sorted == NewestFirst(kept)
  IN IF names = {} THEN <<>>
     ELSE SubSeq(sorted, 1, Min(limit, Len(sorted)))

NoContext == [sentences |-> <<>>, more |-> 0]

\* the context text: the first two sentences and the count of the others
FormatContext(entries) ==
  [sentences |-> SubSeq(entries, 1, Min(2, Len(entries))),
   more |-> IF Len(entries) > 2 THEN Len(entries) - 2 ELSE 0]

\* an entry count that looks at the Entry nodes of every user
EntryCountAnyUser(g, user_id) ==
  Cardinality({n \in g.nodes : n.label = "Entry"})

\* OPTIONAL MATCH (e:Entry {user_id: $user_id}) RETURN count(e)
EntryCount(g, user_id) ==
  Cardinality({n \in g.nodes : n.label = "Entry" /\ n.user_id = user_id})

RECURSIVE get_user_graph_context(_, _, _, _, _, _, _)
\* get_user_graph_context, attempt k of one caller invocation
get_user_graph_context(driver, g, user_id, query_text, limit, env, k) ==
  LET failed(msg, d, n) ==
        [success |-> FALSE, error |-> msg, context |-> NoContext,
         entries |-> <<>>, driver |-> d, attempts |-> n]
      empty(d, n) ==
        [success |-> TRUE, error |-> "", context |-> NoContext,
         entries |-> <<>>, driver |-> d, attempts |-> n]
      ec == IF k = 1 THEN _ensure_connection(driver, env) ELSE <<TRUE, driver>>
      entry_count == EntryCount(g, user_id)
      out == AttemptOutcome(env, k)
  IN IF driver = "none" THEN failed("Neo4j not configured", driver, k - 1)
     ELSE IF ~ec[1] THEN failed("Neo4j connection unavailable", ec[2], k - 1)
     ELSE IF env.countFails \/ entry_count = 0 THEN empty(ec[2], k - 1)
     ELSE IF out = "ok"
     THEN LET entries == GraphContextQuery(g, user_id, query_text, limit)
          IN [success |-> TRUE, error |-> "",
              context |-> FormatContext(entries), entries |-> entries,
              driver |-> ec[2], attempts |-> k]
     ELSE IF IsConnectionError(out)
     THEN LET d == _initialize_driver(env, k)
          IN IF d # "none"
             THEN get_user_graph_context(d, g, user_id, query_text, limit,
                                         env, k + 1)
             ELSE failed("connection", d, k)
     ELSE failed("error", ec[2], k)

(***************************************************************************)
(* Inputs of the graph store operations                                    *)
(***************************************************************************)
Al == <<"A", "l">>
al == <<"a", "l">>
AL == <<"A", "L">>
Bo == <<"B", "o">>
Zed == <<"Z">>
Sad == <<"S", "a", "d">>
sad == <<"s", "a", "d">>
Blank == <<" ">>

Ent(t, n) == [type |-> t, name |-> n]
Emo(t, i) == [type |-> t, valence |-> "negative", intensity |-> i]
Rel(f, ft, t, tt, ty) ==
  [from |-> f, source |-> NoText, to |-> t, target |-> NoText,
   from_type |-> ft, to_type |-> tt, type |-> ty]

\* entity lists of up to two entities that differ in case and type
EntityLists ==
  LET pool == {Ent("PERSON", Al), Ent("person", al), Ent("ORG", Bo)}
  IN {<<>>} \cup {<<x>> : x \in pool} \cup {<<x, y>> : x \in pool, y \in pool}
     \cup {<<Ent("TOPIC", al)>>, <<Ent("PERSON", Blank)>>,
           <<Ent("DATE", AL), Ent("date", al)>>,
           <<Ent("PLACE", <<" ", "A", "l", " ">>), Ent("TOPIC", Bo)>>}

\* intensities as callers may supply them
Intensities ==
  {IntVal(-2), IntVal(0), IntVal(1), IntVal(4), IntVal(7),
   FloatVal(47), FloatVal(59),
   StrVal(<<"4">>), StrVal(<<"9">>), StrVal(<<"h", "i">>),
   StrVal(<<"4", ".", "5">>), NullVal, NanVal, InfVal, Missing}

EmotionLists ==
  {<<Emo(Sad, i)>> : i \in Intensities}
  \cup {<<Emo(sad, IntVal(2))>>, <<Emo(Sad, IntVal(4)), Emo(sad, IntVal(7))>>,
        <<Emo(Blank, IntVal(4))>>, <<Emo(Sad, InfVal), Emo(sad, IntVal(2))>>}

R_typed == Rel(Al, "person", Bo, "organization", <<"k">>)
R_retyped == Rel(Al, "Person", Bo, "ORG", <<"w">>)
R_byName == Rel(al, "", Bo, "", <<"k">>)
R_reverse == Rel(Bo, "org", Al, "person", NoText)
R_unknownName == Rel(Zed, "", Bo, "", <<"k">>)
R_unknownType == Rel(Zed, "alien", Bo, "org", <<"k">>)
R_unknownTo == Rel(Al, "person", Zed, "thing", <<"k">>)
R_user == Rel(Al, "user", Bo, "org", <<"k">>)
R_legacy ==
  [from |-> NoText, source |-> Al, to |-> NoText, target |-> Bo,
   from_type |-> "person", to_type |-> "org", type |-> <<"k">>]
R_halfTyped == Rel(al, "", Bo, "org", <<"k">>)
R_noTarget == Rel(Al, "person", Blank, "org", <<"k">>)

RelLists ==
  {<<r>> : r \in {R_typed, R_retyped, R_byName, R_reverse, R_unknownName,
                  R_unknownType, R_unknownTo, R_user, R_legacy, R_noTarget}}
  \cup {<<R_typed, R_retyped>>, <<R_unknownName, R_typed>>}

Call(u, e, ents, evts, emos, rels) ==
  [user_id |-> u, entry_id |-> e, summary |-> "s", entities |-> ents,
   events |-> evts, emotions |-> emos, relationships |-> rels]

TwoEntities == <<Ent("PERSON", Al), Ent("ORG", Bo)>>

\* graph writes of entities and relationships
Calls ==
  {Call("u1", "e1", ents, <<>>, <<>>, <<>>) : ents \in EntityLists}
  \cup {Call("u1", "e1", <<>>, <<>>,
             <<Emo(Sad, IntVal(4)), Emo(sad, IntVal(7))>>, <<>>)}
  \cup {Call("u1", "e1", TwoEntities, <<>>, <<>>, rels) : rels \in RelLists}
  \cup {Call("u1", "e1", <<>>, <<>>, <<>>, <<r>>) :
          r \in {R_typed, R_byName, R_halfTyped}}
  \cup {Call("u1", "e1", <<Ent("EVENT", al)>>, <<[name |-> Al]>>, <<>>, <<>>),
        Call("u1", "e1", <<Ent("ORG", Bo)>>, <<>>,
             <<Emo(Sad, IntVal(4))>>, <<R_halfTyped>>),
        Call("u1", "e1", <<Ent("PERSON", Al)>>, <<>>,
             <<Emo(Sad, StrVal(<<"h", "i">>))>>, <<R_byName>>)}
  \cup {Call(ue[1], ue[2], TwoEntities, <<>>, <<Emo(sad, IntVal(9))>>,
             <<R_reverse>>) :
          ue \in {<<"u2", "e2">>, <<"u1", "e2">>, <<"u2", "e1">>}}

CleanEnv ==
  [connFails |-> 0, final |-> "ok", reconnFailAt |-> 0, ping |-> "ok",
   countFails |-> FALSE, fault |-> NoFault]

\* backends that fail with connection errors and recover, or do not
RetryEnvs ==
  {[CleanEnv EXCEPT !.connFails = c] : c \in 0..MaxConnFails}
  \cup {[CleanEnv EXCEPT !.connFails = c, !.final = "error"] : c \in 0..1}
  \cup {[CleanEnv EXCEPT !.connFails = c, !.reconnFailAt = c] : c \in 1..2}

ReadEnvs ==
  RetryEnvs \cup {[CleanEnv EXCEPT !.ping = "recovered"],
                  [CleanEnv EXCEPT !.ping = "lost"],
                  [CleanEnv EXCEPT !.countFails = TRUE]}

RetryCall ==
  Call("u1", "e1", <<Ent("PERSON", Al)>>, <<>>, <<Emo(Sad, IntVal(4))>>, <<>>)

\* <<call, backend>> pairs of the writes of entities and relationships
InsertInputs == {<<c, CleanEnv>> : c \in Calls}

\* <<call, backend>> pairs of the writes of emotions
EmotionInputs ==
  {<<Call("u1", "e1", <<>>, <<>>, emos, <<>>), CleanEnv>> : emos \in EmotionLists}

\* <<call, backend>> pairs of the writes to a faulty backend
RetryInputs ==
  {<<RetryCall, v>> : v \in RetryEnvs}
  \cup {<<Call("u2", "e2", TwoEntities, <<>>, <<>>, <<R_typed>>), CleanEnv>>}

\* <<user, query text, limit, backend>> of the reads
ReadInputs ==
  {<<u, q, l, CleanEnv>> : u \in {"u1", "u2"}, q \in {Bo, Sad, <<"a">>},
                           l \in {1, 2}}

\* <<user, query text, limit, backend>> of the reads from a faulty backend
RetryReads ==
  {<<"u1", Al, 2, v>> : v \in ReadEnvs}
  \cup {<<"u2", q, 2, CleanEnv>> : q \in {Al, Bo, Sad}}

\* a write of two entities, two emotions and two relationships
FaultCall ==
  Call("u1", "e1", TwoEntities, <<>>,
       <<Emo(Sad, IntVal(4)), Emo(Zed, IntVal(2))>>, <<R_typed, R_reverse>>)

\* statements of the loops that raise, and the transaction after them
Faults ==
  {[at |-> l, idx |-> i, tx |-> t] :
     l \in {"entity", "emotion", "relationship"}, i \in 1..2,
     t \in {"usable", "failed"}}

\* <<call, backend>> pairs of the writes in which one item fails
FaultInputs ==
  {<<FaultCall, [CleanEnv EXCEPT !.fault = f]>> : f \in Faults \cup {NoFault}}
  \cup {<<Call("u2", "e2", <<Ent("PERSON", Al)>>, <<>>,
               <<Emo(Sad, InfVal), Emo(Zed, IntVal(2))>>, <<>>), CleanEnv>>}

(***************************************************************************)
(* Message pipeline: services/agent_service.py with the parts of           *)
(* rag_service.py, embedding_service.py and nlu_service.py it calls.       *)
(* Every call of an outside capability is appended to a trace.             *)
(***************************************************************************)
Apology == "I'm having trouble processing that right now. Could you try again?"
DefaultWelcome == "Welcome back. How have you been?"

\* conversation_history[-10:]
HistoryWindow == 10
\* len(text_lower.split()) <= 3
GreetingMaxTokens == 3
\* entities[:3]
MaxGraphEntities == 3
\* graph_results[:2]
MaxGraphContexts == 2
\* get_user_graph_context(user_id, entity_name, limit=2)
GraphQueryLimit == 2
\* emotions[:3]
MaxPromptEmotions == 3

\* s[-n:]
LastN(s, n) == IF Len(s) <= n THEN s ELSE SubSeq(s, Len(s) - n + 1, Len(s))
\* s[:n]
FirstN(s, n) == SubSeq(s, 1, Min(n, Len(s)))

greeting_patterns ==
  << <<"h", "e", "l", "l", "o">>, <<"h", "i">>, <<"h", "e", "y">>,
     <<"g", "r", "e", "e", "t", "i", "n", "g", "s">>,
     <<"g", "o", "o", "d", " ", "m", "o", "r", "n", "i", "n", "g">>,
     <<"g", "o", "o", "d", " ", "a", "f", "t", "e", "r", "n", "o", "o", "n">>,
     <<"g", "o", "o", "d", " ", "e", "v", "e", "n", "i", "n", "g">>,
     <<"s", "u", "p">>,
     <<"w", "h", "a", "t", "'", "s", " ", "u", "p">> >>

\* len(s.split())
TokenCount(s) ==
  Cardinality({i \in 1..Len(s) : s[i] # " " /\ (i = 1 \/ s[i - 1] = " ")})

\* AgentService._is_greeting
_is_greeting(text) ==
  LET text_lower == Strip(Lower(text))
  IN /\ TokenCount(text_lower) <= GreetingMaxTokens
     /\ \E i \in 1..Len(greeting_patterns) :
          Contains(text_lower, greeting_patterns[i])

\* EmbeddingService.search_similar_entries with _fallback_text_search.
\* env.vector: what the similarity search does ("hits", "none", "throws");
\* env.text: what the text search does when it is reached
search_similar_entries(env) ==
  IF env.vector # "throws"
  THEN [success |-> TRUE, results |-> IF env.vector = "hits" THEN 1 ELSE 0,
        method |-> "", calls |-> <<"vector_search">>]
  ELSE IF env.text # "throws"
  THEN [success |-> TRUE, results |-> IF env.text = "hits" THEN 1 ELSE 0,
        method |-> "text_search", calls |-> <<"vector_search", "text_search">>]
  ELSE [success |-> FALSE, results |-> 0, method |-> "",
        calls |-> <<"vector_search", "text_search">>]

\* RAGService.get_relevant_context: hasContext tells context != ""
get_relevant_context(env) ==
  LET sr == search_similar_entries(env)
  IN [success |-> TRUE, hasContext |-> sr.success /\ sr.results > 0,
      calls |-> sr.calls]

\* one list-valued field of the extraction output: a list, null, or absent
JList(items) == [state |-> "list", items |-> items]
JNull == [state |-> "null", items |-> <<>>]
JAbsent == [state |-> "absent", items |-> <<>>]

\* the all-empty structure
EmptyGraphData ==
  [people |-> JList(<<>>), organizations |-> JList(<<>>),
   events |-> JList(<<>>), places |-> JList(<<>>), dates |-> JList(<<>>),
   topics |-> JList(<<>>), emotions |-> JList(<<>>),
   relationships |-> JList(<<>>)]

\* data.get(key, []): the default replaces an absent key only
GetOrEmpty(f) == IF f.state = "absent" THEN JList(<<>>) ELSE f

\* NLUService.extract_graph_entities.  out.kind: "throws" (the call fails),
\* "nonjson" (nothing parses), "array" (a list without an object in front),
\* "scalar", "object" with the parsed object in out.data, or "array_object"
\* (a list whose first element is the object in out.data)
extract_graph_entities(out) ==
  IF out.kind \in {"object", "array_object"}
  THEN [f \in DOMAIN EmptyGraphData |-> GetOrEmpty(out.data[f])]
  ELSE EmptyGraphData

\* NLUService.classify_intent.  out.kind "throws", or "text" with the words of
\* the answer in out.words
valid_intents ==
  <<"self-reflection", "planning", "emotional-release", "insight-generation",
    "general">>

classify_intent_unguarded(out) ==
  IF out.kind = "throws" THEN "error"
  ELSE IF Len(out.words) = 1 /\ \E i \in 1..5 : valid_intents[i] = out.words[1]
  THEN out.words[1]
  ELSE "general"
classify_intent(out) ==
  IF out.kind = "throws" THEN "general"
  ELSE IF Len(out.words) = 1 /\ \E i \in 1..5 : valid_intents[i] = out.words[1]
  THEN out.words[1]
  ELSE LET hits == {i \in 1..5 : \E j \in 1..Len(out.words) :
                                    out.words[j] = valid_intents[i]}
       IN IF hits = {} THEN "general"
          ELSE valid_intents[CHOOSE i \in hits : \A j \in hits : i <= j]


\* one emotion of the extraction output: an object, or any other JSON value
EmoDict(t, i) == [isDict |-> TRUE, type |-> t, valence |-> "negative", intensity |-> i]
EmoRaw(t) == [isDict |-> FALSE, type |-> t, valence |-> "", intensity |-> Missing]

\* the empty dict {} and the dict process_text returns
NoMetadata ==
  [keys |-> {}, entities |-> <<>>, events |-> <<>>, emotions |-> <<>>,
   intent |-> "", relationships |-> JList(<<>>), graph_data |-> EmptyGraphData]

\* NLUService.infer_relationships: ans.kind "throws", "nonjson" or "list"
infer_relationships(entities, ans) ==
  IF Len(entities) < 2 THEN [rels |-> <<>>, calls |-> <<>>]
  ELSE [rels |-> IF ans.kind = "list" THEN ans.items ELSE <<>>,
        calls |-> <<"infer">>]

\* entity_name_to_type.get(name, "PERSON") through entity_type_mapping
InferredType(entities, name) ==
  LET hits == {i \in 1..Len(entities) : entities[i].name = name}
      raw == IF hits = {} THEN "PERSON"
             ELSE UpperType(entities[CHOOSE i \in hits : \A j \in hits : j <= i].type)
  IN CASE raw = "PERSON" -> "person"
       [] raw = "ORG" -> "organization"
       [] raw = "EVENT" -> "event"
       [] raw = "PLACE" -> "place"
       [] raw = "DATE" -> "date"
       [] OTHER -> "person"

\* NLUService.process_text.  A field that is not a list cannot be iterated:
\* the TypeError leaves process_text
process_text(env) ==
  LET iterated == {"people", "organizations", "events", "topics", "places",
                   "dates", "emotions"}
      typed(graph_data, f, t) ==
        [i \in 1..Len(graph_data[f].items) |-> Ent(t, graph_data[f].items[i])]
      converted(entities, rels) ==
        [i \in 1..Len(rels) |->
           [from |-> rels[i].source, source |-> NoText,
            to |-> rels[i].target, target |-> NoText,
            from_type |-> InferredType(entities, rels[i].source),
            to_type |-> InferredType(entities, rels[i].target),
            type |-> rels[i].type]]
      Result(graph_data, entities, emotions, inf) ==
        [raised |-> FALSE, error |-> "",
         calls |-> <<"extract">> \o inf.calls \o <<"intent">>,
         result |-> [keys |-> {"entities", "events", "emotions", "intent",
                                "relationships", "graph_data"},
                     entities |-> entities,
                     events |-> graph_data.events.items,
                     emotions |-> emotions,
                     intent |-> classify_intent(env.intent),
                     \* None.append raises inside the try: the inferred
                     \* relationships are lost
                     relationships |->
                       IF graph_data.relationships.state = "null"
                       THEN graph_data.relationships
                       ELSE JList(graph_data.relationships.items
                                    \o converted(entities, inf.rels)),
                     graph_data |-> graph_data]]
      Inferring(graph_data, entities, emotions) ==
        Result(graph_data, entities, emotions,
               IF /\ \/ graph_data.relationships.state = "null"
                     \/ graph_data.relationships.items = <<>>
                  /\ Len(entities) >= 2
               THEN infer_relationships(entities, env.infer)
               ELSE [rels |-> <<>>, calls |-> <<>>])
      Processed(graph_data) ==
        IF \E f \in iterated : graph_data[f].state = "null"
        THEN [raised |-> TRUE, error |-> "TypeError",
              calls |-> <<"extract">>, result |-> NoMetadata]
        ELSE Inferring(
               graph_data,
               Concat(<<typed(graph_data, "people", "PERSON"),
                        typed(graph_data, "organizations", "ORG"),
                        typed(graph_data, "events", "EVENT"),
                        typed(graph_data, "topics", "TOPIC"),
                        typed(graph_data, "places", "PLACE"),
                        typed(graph_data, "dates", "DATE")>>),
               [i \in 1..Len(graph_data.emotions.items) |->
                  IF /\ graph_data.emotions.items[i].isDict
                     /\ graph_data.emotions.items[i].intensity = Missing
                  THEN [graph_data.emotions.items[i]
                          EXCEPT !.intensity = IntVal(DefaultIntensity)]
                  ELSE graph_data.emotions.items[i]])
  IN Processed(extract_graph_entities(env.extract))


GeneratedReply == "generated reply"
GeneratedWelcome == "generated welcome"

\* one turn of a conversation; the content is a sequence of pieces of text
Turn(role, content) == [role |-> role, content |-> content]

\* AgentService._generate_greeting_response
_generate_greeting_response(hasContext, env) ==
  IF hasContext
  THEN IF env.gen = "ok"
       THEN [raised |-> FALSE, error |-> "", response |-> GeneratedWelcome,
             calls |-> <<"generate">>]
       ELSE [raised |-> TRUE, error |-> "generation failed", response |-> "",
             calls |-> <<"generate">>]
  ELSE [raised |-> FALSE, error |-> "", response |-> DefaultWelcome,
        calls |-> <<>>]

\* conversation_history[-10:] of _generate_response
RecentHistory(conversation_history) == LastN(conversation_history, HistoryWindow)

\* AgentService._generate_response, wrongly calling the generation a second
\* time when it raised
_generate_responseRetrying(user_input, conversation_history, nlu_metadata, env) ==
  [raised |-> env.gen # "ok",
   error |-> IF env.gen = "ok" THEN "" ELSE "generation failed",
   response |-> IF env.gen = "ok" THEN GeneratedReply ELSE "",
   messages |-> <<Turn("system", <<"prompt">>)>>
                  \o RecentHistory(conversation_history)
                  \o <<Turn("user", user_input)>>,
   calls |-> IF env.gen = "ok" THEN <<"generate">>
             ELSE <<"generate", "generate">>]

\* AgentService._generate_response: e.get on an emotion that is not a dict
\* raises before the generation call
_generate_response(user_input, conversation_history, nlu_metadata, env) ==
  LET shown == FirstN(nlu_metadata.emotions, MaxPromptEmotions)
      messages == <<Turn("system", <<"prompt">>)>>
                    \o RecentHistory(conversation_history)
                    \o <<Turn("user", user_input)>>
  IN IF \E i \in 1..Len(shown) : ~shown[i].isDict
     THEN [raised |-> TRUE, error |-> "AttributeError", response |-> "",
           messages |-> <<>>, calls |-> <<>>]
     ELSE IF env.gen = "ok"
     THEN [raised |-> FALSE, error |-> "", response |-> GeneratedReply,
           messages |-> messages, calls |-> <<"generate">>]
     ELSE [raised |-> TRUE, error |-> "generation failed", response |-> "",
           messages |-> messages, calls |-> <<"generate">>]

RECURSIVE GraphQueries(_, _, _, _, _, _)
\* the loop over entities[:3] of process_message: one graph query for each
\* entity that has a name
GraphQueries(entities, d, g, user_id, env, acc) ==
  LET Queried(r) ==
        GraphQueries(Tail(entities), r.driver, g, user_id, env,
                     [results |-> IF r.success /\ r.context # NoContext
                                  THEN acc.results \o <<r.context>>
                                  ELSE acc.results,
                      calls |-> acc.calls \o <<"graph_query">>,
                      failed |-> acc.failed + IF r.success THEN 0 ELSE 1])
  IN IF entities = <<>>
     THEN [driver |-> d, results |-> acc.results, calls |-> acc.calls,
           failed |-> acc.failed]
     ELSE IF Head(entities).name = NoText
     THEN GraphQueries(Tail(entities), d, g, user_id, env, acc)
     ELSE Queried(get_user_graph_context(d, g, user_id, Head(entities).name,
                                         GraphQueryLimit, env, 1))

\* the result of the except branch of process_message
FailureResultLeaky(error) ==
  [fields |-> {"success", "error", "response"}, success |-> FALSE,
   error |-> error, response |-> error, nlu_metadata |-> NoMetadata,
   intent |-> "", rag_context_used |-> FALSE, graph_context_used |-> FALSE]
FailureResult(error) ==
  [fields |-> {"success", "error", "response"}, success |-> FALSE,
   error |-> error, response |-> Apology, nlu_metadata |-> NoMetadata,
   intent |-> "", rag_context_used |-> FALSE, graph_context_used |-> FALSE]

ResultFields ==
  {"success", "response", "nlu_metadata", "intent", "rag_context_used",
   "graph_context_used"}


\* the greeting branch of process_message with structured extraction added
GreetingBranchWithNlu(env) ==
  LET Greeted(rag, nlu, gr) ==
        [raised |-> gr.raised, error |-> gr.error,
         calls |-> rag.calls \o nlu.calls \o gr.calls,
         result |-> [fields |-> ResultFields, success |-> TRUE, error |-> "",
                     response |-> gr.response, nlu_metadata |-> nlu.result,
                     intent |-> "greeting",
                     rag_context_used |-> rag.hasContext,
                     graph_context_used |-> FALSE]]
      Retrieved(rag) ==
        Greeted(rag, process_text(env),
                _generate_greeting_response(rag.hasContext, env))
  IN Retrieved(get_relevant_context(env))
\* the greeting branch of process_message
GreetingBranch(env) ==
  LET Greeted(rag, gr) ==
        [raised |-> gr.raised, error |-> gr.error,
         calls |-> rag.calls \o gr.calls,
         result |-> [fields |-> ResultFields, success |-> TRUE, error |-> "",
                     response |-> gr.response, nlu_metadata |-> NoMetadata,
                     intent |-> "greeting",
                     rag_context_used |-> rag.hasContext,
                     graph_context_used |-> FALSE]]
      Retrieved(rag) ==
        Greeted(rag, _generate_greeting_response(rag.hasContext, env))
  IN Retrieved(get_relevant_context(env))

\* AgentService.process_message.  Returns the result, the driver as the graph
\* queries left it, the capability calls in order, and the message list the
\* generation call was given
process_message(user_input, conversation_history, user_id, d, g, env) ==
  LET done(result, calls, messages, dd) ==
        [result |-> result, calls |-> calls, messages |-> messages,
         driver |-> dd, raised |-> FALSE]
      Greeted(b) ==
        IF b.raised THEN done(FailureResult(b.error), b.calls, <<>>, d)
        ELSE done(b.result, b.calls, <<>>, d)
      Generated(rag, nlu, gq, gen) ==
        IF gen.raised
        THEN done(FailureResult(gen.error),
                  rag.calls \o nlu.calls \o gq.calls \o gen.calls,
                  gen.messages, gq.driver)
        ELSE done([fields |-> ResultFields, success |-> TRUE,
                   error |-> "", response |-> gen.response,
                   nlu_metadata |-> nlu.result,
                   intent |-> nlu.result.intent,
                   rag_context_used |-> rag.hasContext,
                   graph_context_used |->
                     FirstN(gq.results, MaxGraphContexts) # <<>>],
                  rag.calls \o nlu.calls \o gq.calls \o gen.calls,
                  gen.messages, gq.driver)
      Understood(rag, nlu) ==
        IF nlu.raised
        THEN done(FailureResult(nlu.error), rag.calls \o nlu.calls, <<>>, d)
        ELSE Generated(rag, nlu,
                       GraphQueries(FirstN(nlu.result.entities,
                                           MaxGraphEntities),
                                    d, g, user_id, env.graph,
                                    [results |-> <<>>, calls |-> <<>>,
                                     failed |-> 0]),
                       _generate_response(user_input, conversation_history,
                                          nlu.result, env))
  IN IF _is_greeting(user_input) THEN Greeted(GreetingBranch(env))
     ELSE Understood(get_relevant_context(env), process_text(env))


(***************************************************************************)
(* Chat session: app.py                                                    *)
(***************************************************************************)
\* session['conversation_history'][-20:]
SessionLimit == 20

\* the reply of get_response when the generation call raised
ConnectionTrouble ==
  "I'm having trouble connecting right now. Let me try again in a moment. (generation failed)"

\* JournalingAssistant.get_response
get_response(user_input, conversation_history, env) ==
  LET rag == get_relevant_context(env)
      messages == <<Turn("system", <<"prompt">>)>>
                    \o RecentHistory(conversation_history)
                    \o <<Turn("user", user_input)>>
  IN [response |-> IF env.gen = "ok" THEN GeneratedReply
                   ELSE ConnectionTrouble,
      messages |-> messages, calls |-> rag.calls \o <<"generate">>]

\* the last lines of chat(): keep the last 20 turns
TruncateSessionOldest(history) ==
  IF Len(history) > SessionLimit THEN FirstN(history, SessionLimit) ELSE history
TruncateSession(history) ==
  IF Len(history) > SessionLimit THEN LastN(history, SessionLimit) ELSE history

\* chat(): the session after the request and what get_response returned;
\* a message that is empty after strip() is rejected with status 400
chat(history, message, env) ==
  LET user_message == Strip(message)
      r == get_response(user_message, history, env)
  IN IF user_message = NoText
     THEN [status |-> 400, session |-> history, response |-> "",
           messages |-> <<>>, calls |-> <<>>]
     ELSE [status |-> 200,
           session |-> TruncateSession(history
                                         \o <<Turn("user", user_message),
                                              Turn("assistant", <<r.response>>)>>),
           response |-> r.response, messages |-> r.messages,
           calls |-> r.calls]


(***************************************************************************)
(* Inputs of the message pipeline and of the chat session                  *)
(***************************************************************************)
Hi == <<"H", "i">>
HeyBo == <<"h", "e", "y", " ", "B", "o">>
PaddedHello == <<" ", "H", "E", "L", "L", "O", " ">>
ThisIsAl == <<"t", "h", "i", "s", " ", "i", "s", " ", "A", "l">>
AlIsSad == <<"A", "l", " ", "i", "s", " ", "s", "a", "d">>
HiIAmSad == <<"h", "i", " ", "i", " ", "a", "m", " ", "s", "a", "d">>
Messages == {Hi, HeyBo, PaddedHello, ThisIsAl, AlIsSad, HiIAmSad, Bo}

\* outputs of the extraction capability
Fields(people, organizations, emotions, relationships) ==
  [EmptyGraphData EXCEPT !.people = people, !.organizations = organizations,
                         !.emotions = emotions,
                         !.relationships = relationships]
Extracted(kind, data) == [kind |-> kind, data |-> data]
X_two ==
  Extracted("object", Fields(JList(<<Al>>), JList(<<Bo>>),
                             JList(<<EmoDict(Sad, IntVal(4))>>), JList(<<>>)))
X_throws == Extracted("throws", EmptyGraphData)
X_nullPeople == Extracted("object", Fields(JNull, JList(<<Bo>>), JList(<<>>), JList(<<>>)))
X_rawEmotion ==
  Extracted("object", Fields(JList(<<Al>>), JAbsent, JList(<<EmoRaw(Sad)>>), JAbsent))
Extractions ==
  {X_two, X_throws, X_nullPeople, X_rawEmotion,
   Extracted("nonjson", EmptyGraphData), Extracted("array", EmptyGraphData),
   Extracted("scalar", EmptyGraphData),
   Extracted("array_object", X_two.data),
   Extracted("object", Fields(JList(<<Al>>), JAbsent,
                              JList(<<EmoDict(Sad, Missing)>>), JAbsent)),
   Extracted("object", Fields(JList(<<Al>>), JList(<<Bo>>), JList(<<>>),
                              JList(<<R_typed>>))),
   Extracted("object", Fields(JList(<<Al>>), JList(<<Bo>>), JList(<<>>), JNull)),
   Extracted("object", Fields(JList(<<NoText, Al, Bo, Sad>>), JList(<<Al>>),
                              JNull, JList(<<>>))),
   Extracted("object", Fields(JList(<<NoText, Bo, Al, Sad>>), JList(<<>>),
                              JList(<<>>), JList(<<>>))),
   Extracted("object", Fields(JList(<<Al, Bo, Sad, Zed>>), JList(<<>>),
                              JList(<<>>), JList(<<>>)))}

\* answers of the relationship inference and of the intent classification
Inferred ==
  {[kind |-> "throws", items |-> <<>>],
   [kind |-> "list",
    items |-> <<[source |-> Al, target |-> Bo, type |-> <<"k">>]>>]}
Answer(kind, words) == [kind |-> kind, words |-> words]
IntentAnswers ==
  {Answer("throws", <<>>), Answer("text", <<"planning">>),
   Answer("text", <<"the", "general", "planning">>),
   Answer("text", <<"unsure">>)}

\* what one call of process_message meets in its surroundings
BaseEnv ==
  [vector |-> "hits", text |-> "hits", extract |-> X_two,
   infer |-> [kind |-> "throws", items |-> <<>>],
   intent |-> Answer("text", <<"planning">>), graph |-> CleanEnv, gen |-> "ok"]

GraphEnvs ==
  {CleanEnv, [CleanEnv EXCEPT !.final = "error"],
   [CleanEnv EXCEPT !.ping = "lost"], [CleanEnv EXCEPT !.connFails = 1]}

\* every backend fails except the generation
AllFail ==
  [BaseEnv EXCEPT !.vector = "throws", !.text = "throws",
                  !.extract = X_throws, !.intent = Answer("throws", <<>>),
                  !.graph = [CleanEnv EXCEPT !.final = "error"]]

MessageEnvs ==
  {[BaseEnv EXCEPT !.vector = v[1], !.text = v[2], !.gen = g] :
     v \in {<<"hits", "hits">>, <<"none", "hits">>, <<"throws", "hits">>,
            <<"throws", "none">>, <<"throws", "throws">>},
     g \in {"ok", "throws"}}
  \cup {[BaseEnv EXCEPT !.extract = x, !.infer = i, !.gen = g] :
          x \in Extractions, i \in Inferred, g \in {"ok", "throws"}}
  \cup {[BaseEnv EXCEPT !.intent = a, !.graph = e] :
          a \in IntentAnswers, e \in GraphEnvs}
  \cup {AllFail, [AllFail EXCEPT !.gen = "throws"]}

\* a supplied history of n turns, numbered from the oldest
History(n) ==
  [i \in 1..n |-> Turn(IF i % 2 = 1 THEN "user" ELSE "assistant",
                        <<ToString(i)>>)]
LongHistory == 25
Histories == {History(0), History(HistoryWindow + 1), History(LongHistory)}

\* <<message, history, user, surroundings>> of the calls of process_message
MessageInputs ==
  {<<m, History(0), "u1", e>> : m \in {Hi, ThisIsAl, AlIsSad}, e \in MessageEnvs}
  \cup {<<m, h, "u1", BaseEnv>> : m \in Messages, h \in Histories}
  \cup {<<AlIsSad, History(0), "u2", BaseEnv>>}

\* what the chat requests post and meet
ChatMessages == {Blank, AlIsSad}
ChatEnvs == {BaseEnv, [BaseEnv EXCEPT !.gen = "throws"]}

\* <<message, history, user, surroundings>> of the calls with long histories
HistoryInputs ==
  {<<AlIsSad, h, "u1", BaseEnv>> : h \in Histories \ {History(0)}}

\* the graph the message pipeline reads: one entry of user u1 was stored
SampleGraph ==
  (_insert_graph_tx(EmptyGraph,
                    Call("u1", "e1", TwoEntities, <<>>,
                         <<Emo(Sad, IntVal(4))>>, <<R_typed>>), 1, "ok",
                    NoFault)).g

(***************************************************************************)
(* Journal entries and their search: services/journal_service.py and       *)
(* services/embedding_service.py.  The table journal_entries is a set of   *)
(* rows [id, user_id, summarized_text, timestamp].                         *)
(***************************************************************************)
\* JournalService.save_entry: one row inserted into journal_entries;
\* outcome is what the insert does ("ok", "throws")
save_entry(journal, user_id, summary, now, outcome) ==
  IF outcome = "ok"
  THEN [success |-> TRUE,
        journal |-> journal \cup {[id |-> now, user_id |-> user_id,
                                   summarized_text |-> summary,
                                   timestamp |-> now]}]
  ELSE [success |-> FALSE, journal |-> journal]

RECURSIVE ILike(_, _)
\* text ILIKE pattern: "%" matches any run of characters, "_" any one
\* character, every other character itself in either case (the inputs hold
\* no escape character)
ILike(text, pattern) ==
  IF pattern = <<>> THEN text = <<>>
  ELSE IF Head(pattern) = "%"
  THEN ILike(text, Tail(pattern))
       \/ (text # <<>> /\ ILike(Tail(text), pattern))
  ELSE IF text = <<>> THEN FALSE
  ELSE IF Head(pattern) = "_" THEN ILike(Tail(text), Tail(pattern))
  ELSE LowerChar(Head(text)) = LowerChar(Head(pattern))
       /\ ILike(Tail(text), Tail(pattern))

\* EmbeddingService._fallback_text_search: the user's rows whose summary is
\* ILIKE %query_text%, newest first, at most limit of them
_fallback_text_search(journal, user_id, query_text, limit, env) ==
  LET Limited(sorted) ==
        [success |-> TRUE, error |-> "",
         results |-> SubSeq(sorted, 1, Min(limit, Len(sorted))),
         method |-> "text_search"]
  IN IF env.text = "throws"
     THEN [success |-> FALSE, error |-> "error", results |-> <<>>,
           method |-> ""]
     ELSE Limited(NewestFirst(
            {r \in journal :
               /\ r.user_id = user_id
               /\ ILike(r.summarized_text, <<"%">> \o query_text \o <<"%">>)}))

\* EmbeddingService.search_similar_entries over the journal table.
\* env.vector: what the embedding call and the match_documents call do
\* ("ok", "throws"); env.matches: the rows match_documents returns
SearchSimilarEntries(journal, user_id, query_text, limit, env) ==
  IF env.vector = "ok"
  THEN [success |-> TRUE, error |-> "", results |-> env.matches,
        method |-> ""]
  ELSE _fallback_text_search(journal, user_id, query_text, limit, env)

\* bound: rows in the table journal_entries
MaxEntries == 3

\* summaries of saved entries
Summaries ==
  {<<"a", "b", "c">>, <<"A", "B">>, <<"b", "%", "c">>}

\* what the search meets: the similarity search works, it throws and the
\* text search works, or both throw
SearchOk == [vector |-> "ok", matches |-> <<>>, text |-> "ok"]
SearchEnvs ==
  {SearchOk,
   [SearchOk EXCEPT !.vector = "throws"],
   [SearchOk EXCEPT !.vector = "throws", !.text = "throws"]}

\* <<user, query text, limit, outcomes>> of the searches
SearchInputs ==
  {<<"u1", q, 1, v>> : q \in {<<"a", "b">>, <<"b", "c">>, <<"a", "_", "c">>},
                       v \in SearchEnvs}
  \cup {<<"u2", <<"b">>, 2, [SearchOk EXCEPT !.vector = "throws"]>>}

(***************************************************************************)
(* EmbeddingService.chunk_conversation.  A chunk is a text: a sequence of  *)
(* one-character strings in which "\n" is the line break.                  *)
(***************************************************************************)
\* "User: " and "Assistant: "
UserPrefix == <<"U", "s", "e", "r", ":", " ">>
AssistantPrefix == <<"A", "s", "s", "i", "s", "t", "a", "n", "t", ":", " ">>

\* role.title() over the roles of the callers
Title(role) ==
  CASE role = "user" -> <<"U", "s", "e", "r">>
    [] role = "assistant" -> <<"A", "s", "s", "i", "s", "t", "a", "n", "t">>
    [] OTHER -> <<"S", "y", "s", "t", "e", "m">>

RECURSIVE JoinLines(_)
\* "\n".join(lines)
JoinLines(lines) ==
  IF lines = <<>> THEN <<>>
  ELSE IF Len(lines) = 1 THEN lines[1]
  ELSE lines[1] \o <<"\n">> \o JoinLines(Tail(lines))

RECURSIVE ChunkTurnsDropping(_, _, _)
\* ChunkTurns that starts the chunk of a user turn without closing the
\* chunk before it
ChunkTurnsDropping(turns, chunks, current_chunk) ==
  IF turns = <<>>
  THEN IF Strip(current_chunk) # <<>>
       THEN Append(chunks, Strip(current_chunk))
       ELSE chunks
  ELSE IF Head(turns).role = "user"
  THEN ChunkTurnsDropping(Tail(turns), chunks,
                          UserPrefix \o Head(turns).content \o <<"\n">>)
  ELSE IF Head(turns).role = "assistant"
  THEN ChunkTurnsDropping(Tail(turns), chunks,
                          current_chunk \o AssistantPrefix
                          \o Head(turns).content \o <<"\n">>)
  ELSE ChunkTurnsDropping(Tail(turns), chunks, current_chunk)

RECURSIVE ChunkTurns(_, _, _)
\* the loop over the turns and the statement after it: chunks closed so far
\* and the chunk being built
ChunkTurns(turns, chunks, current_chunk) ==
  IF turns = <<>>
  THEN IF Strip(current_chunk) # <<>>
       THEN Append(chunks, Strip(current_chunk))
       ELSE chunks
  ELSE IF Head(turns).role = "user"
  THEN ChunkTurns(Tail(turns),
                  IF current_chunk # <<>>
                  THEN Append(chunks, Strip(current_chunk)) ELSE chunks,
                  UserPrefix \o Head(turns).content \o <<"\n">>)
  ELSE IF Head(turns).role = "assistant"
  THEN ChunkTurns(Tail(turns), chunks,
                  current_chunk \o AssistantPrefix \o Head(turns).content
                  \o <<"\n">>)
  ELSE ChunkTurns(Tail(turns), chunks, current_chunk)

\* chunk_conversation: the chunks of the loop, or the whole conversation as
\* one chunk when the loop made none
chunk_conversation(conversation_history) ==
  LET Whole(chunks) ==
        IF chunks # <<>> THEN chunks
        ELSE <<JoinLines([i \in 1..Len(conversation_history) |->
                            Title(conversation_history[i].role) \o <<":", " ">>
                            \o conversation_history[i].content])>>
  IN Whole(ChunkTurns(conversation_history, <<>>, <<>>))

\* bound: turns of a conversation handed to chunk_conversation
MaxTurns == 4

\* contents of turns: plain, ending in a blank, empty
Contents == {<<"A">>, <<"B">>, <<"C", " ">>, <<>>}

RECURSIVE Conversations(_)
\* the conversations of exactly n turns
Conversations(n) ==
  IF n = 0 THEN {<<>>}
  ELSE {Append(h, Turn(role, content)) :
          h \in Conversations(n - 1),
          role \in {"user", "assistant", "system"}, content \in Contents}

(***************************************************************************)
(* Saving and deleting an entry: save_entry and api_delete_entry of app.py *)
(* with JournalService.delete_entry and EmbeddingService.store_embeddings. *)
(* The table journal_entry_vectors is a set of rows [entry_id, user_id,    *)
(* chunk_text, n], n numbering the chunks of one insert.                   *)
(***************************************************************************)
\* EmbeddingService.store_embeddings: one embedding per chunk, then one
\* insert of all the rows; outcome is what these calls do ("ok",
\* "embedding throws", "insert throws")
store_embeddings(vectors, entry_id, user_id, chunks, outcome) ==
  IF outcome = "ok"
  THEN [success |-> TRUE,
        vectors |-> vectors
                      \cup {[entry_id |-> entry_id, user_id |-> user_id,
                             chunk_text |-> chunks[i], n |-> i] :
                              i \in 1..Len(chunks)}]
  ELSE [success |-> FALSE, vectors |-> vectors]

\* JournalService.delete_entry, first statement: delete from
\* journal_entry_vectors where entry_id and user_id match
DeleteVectors(vectors, entry_id, user_id) ==
  {v \in vectors : ~(v.entry_id = entry_id /\ v.user_id = user_id)}

\* JournalService.delete_entry, second statement: delete from
\* journal_entries where id and user_id match
DeleteRow(journal, entry_id, user_id) ==
  {r \in journal : ~(r.id = entry_id /\ r.user_id = user_id)}

\* bound: POST /save_entry requests that reach the journal table
MaxSaves == 2
\* bound: DELETE /api/entries/<id> requests
MaxDeletes == 2
\* bound: chat requests of one session before it is saved
MaxSessionChats == 1

\* what generate_summary returns for the sessions saved
SessionSummaries == {<<"a", "b", "c">>}

\* what the store calls of a request do
InsertOutcomes == {"ok", "throws"}
EmbeddingOutcomes == {"ok", "embedding throws", "insert throws"}

(***************************************************************************)
(* State                                                                   *)
(***************************************************************************)
VARIABLES
  driver,     \* Neo4jService.driver: "up" or "none"
  graph,      \* the content of the graph database
  clock,      \* number of store operations so far; datetime() of the next
  lastOp,     \* the last store operation: its arguments, the driver it found
              \* and what it returned
  prevOp,     \* the store operation before lastOp
  prevGraph,  \* the graph as it was when lastOp was called
  session,    \* session['conversation_history'] of the one browser session
  transcript, \* every turn appended to the session since it was last reset
  lastMsg,    \* the last message handled: its inputs and what came of it
  journal,    \* the rows of the table journal_entries
  lastSearch, \* the last search_similar_entries: its arguments and result
  lastChunks, \* the last chunk_conversation: its argument and result
  vectors,    \* the rows of the table journal_entry_vectors
  requests,   \* the POST /save_entry and DELETE /api/entries/<id> requests
              \* being served: where each stands and what it returned
  handles,    \* the driver objects Neo4jService has made: the one self.driver
              \* refers to and the closed ones.  Followed where calls of
              \* several threads interleave; one call at a time needs only
              \* driver
  pipelines   \* the calls of get_user_graph_context being served, one per
              \* thread: where each stands and the driver object it holds

graphVars == <<driver, graph, clock, lastOp, prevOp, prevGraph>>
chatVars == <<session, transcript, lastMsg>>
connVars == <<handles, pipelines>>
ragVars == <<journal, lastSearch, lastChunks, vectors, requests, handles,
             pipelines>>
vars == <<driver, graph, clock, lastOp, prevOp, prevGraph, session, transcript,
          lastMsg, journal, lastSearch, lastChunks, vectors, requests,
          handles, pipelines>>

NoCall == Call("", "", <<>>, <<>>, <<>>, <<>>)

NoOp ==
  [kind |-> "none", call |-> NoCall, query |-> NoText, limit |-> 0,
   env |-> CleanEnv, driver |-> "none", success |-> FALSE, error |-> "", attempts |-> 0,
   entities_inserted |-> 0, emotions_inserted |-> 0,
   relationships_inserted |-> 0, context |-> NoContext, entries |-> <<>>]

NoResult ==
  [fields |-> {}, success |-> FALSE, error |-> "", response |-> "",
   nlu_metadata |-> NoMetadata, intent |-> "", rag_context_used |-> FALSE,
   graph_context_used |-> FALSE]

NoMsg ==
  [kind |-> "none", user_input |-> NoText, history |-> <<>>, user_id |-> "",
   env |-> BaseEnv, raised |-> FALSE, result |-> NoResult, calls |-> <<>>,
   messages |-> <<>>, status |-> 0]

NoSearch ==
  [kind |-> "none", user_id |-> "", query |-> NoText, limit |-> 0,
   env |-> SearchOk, journal |-> {}, success |-> FALSE, error |-> "",
   results |-> <<>>, method |-> ""]

NoChunks == [kind |-> "none", conversation |-> <<>>, chunks |-> <<>>]

\* no request served yet.  pc of a request: "idle" before it starts, then
\* the store call it has passed, then "done"; issued counts the ids the
\* table journal_entries has given out, deletes the delete requests so far
NoSave ==
  [pc |-> "idle", user_id |-> "", conversation |-> <<>>, entry_id |-> 0,
   status |-> 0, embedded |-> FALSE]
NoDelete ==
  [pc |-> "idle", user_id |-> "", entry_id |-> 0, success |-> FALSE]
NoRequests ==
  [save |-> NoSave, delete |-> NoDelete, issued |-> 0, deletes |-> 0]

\* the threads that serve requests
Threads == {"p1", "p2"}

\* no call of get_user_graph_context served yet.  pc: "idle", then the
\* statement the call is about to run ("enter", "ensure", "open", "query"), then
\* "done"; using is the driver object whose session the call holds, 0 none
NoPipeline ==
  [pc |-> "idle", using |-> 0, attempts |-> 0, success |-> FALSE, error |-> ""]

\* the driver objects after Neo4jService.__init__: object 1 when the first
\* connection was made, none (self.driver is None, written 0) otherwise
FirstHandle(d) ==
  IF d = "up" THEN [current |-> 1, closed |-> {}, made |-> 1]
  ELSE [current |-> 0, closed |-> {}, made |-> 0]

\* no journal entry saved, nothing searched or chunked yet
RagInit ==
  /\ journal = {}
  /\ lastSearch = NoSearch
  /\ lastChunks = NoChunks
  /\ vectors = {}
  /\ requests = NoRequests
  /\ handles = FirstHandle(driver)
  /\ pipelines = [t \in Threads |-> NoPipeline]

\* a new browser session, before any request
ChatInit ==
  /\ session = <<>>
  /\ transcript = <<>>
  /\ lastMsg = NoMsg
  /\ RagInit

\* state after Neo4jService.__init__: a working driver, or none when the
\* credentials are missing or the first connection failed
GraphInit ==
  /\ driver \in {"up", "none"}
  /\ graph = EmptyGraph
  /\ clock = 0
  /\ lastOp = NoOp
  /\ prevOp = NoOp
  /\ prevGraph = EmptyGraph
  /\ ChatInit

\* a caller invokes insert_entities_and_relationships
InsertFrom(inputs) ==
  /\ clock < MaxOps
  /\ \E in \in inputs :
       \E r \in {insert_entities_and_relationships(driver, graph, in[1],
                                                   in[2], clock + 1, 1)} :
          /\ graph' = r.g
          /\ driver' = r.driver
          /\ lastOp' = [NoOp EXCEPT !.kind = "insert", !.call = in[1],
                          !.env = in[2], !.driver = driver, !.success = r.success,
                          !.error = r.error, !.attempts = r.attempts,
                          !.entities_inserted = r.entities_inserted,
                          !.emotions_inserted = r.emotions_inserted,
                          !.relationships_inserted = r.relationships_inserted]
  /\ clock' = clock + 1
  /\ prevOp' = lastOp
  /\ prevGraph' = graph
  /\ UNCHANGED chatVars
  /\ UNCHANGED ragVars

\* a caller invokes get_user_graph_context
GetContextFrom(inputs) ==
  /\ clock < MaxOps
  /\ \E in \in inputs :
       \E r \in {get_user_graph_context(driver, graph, in[1], in[2], in[3],
                                        in[4], 1)} :
          /\ driver' = r.driver
          /\ lastOp' = [NoOp EXCEPT !.kind = "context",
                          !.call = [NoCall EXCEPT !.user_id = in[1]],
                          !.query = in[2], !.limit = in[3], !.env = in[4],
                          !.driver = driver, !.success = r.success, !.error = r.error,
                          !.attempts = r.attempts, !.context = r.context,
                          !.entries = r.entries]
  /\ graph' = graph
  /\ clock' = clock + 1
  /\ prevOp' = lastOp
  /\ prevGraph' = graph
  /\ UNCHANGED chatVars
  /\ UNCHANGED ragVars

\* writes of entities and relationships, and reads, on a sound backend
Insert == InsertFrom(InsertInputs)
GetContext == GetContextFrom(ReadInputs)
GraphNext == Insert \/ GetContext
GraphSpec == GraphInit /\ [][GraphNext]_vars

\* writes of emotions with every kind of intensity
InsertEmotion == InsertFrom(EmotionInputs)
IntensityNext == InsertEmotion
IntensitySpec == GraphInit /\ [][IntensityNext]_vars

\* writes and reads on a backend that drops connections
InsertRetry == InsertFrom(RetryInputs)
GetContextRetry == GetContextFrom(RetryReads)
RetryNext == InsertRetry \/ GetContextRetry
RetrySpec == GraphInit /\ [][RetryNext]_vars

\* the pipeline starts on a graph that holds one stored entry
AgentInit ==
  /\ driver \in {"up", "none"}
  /\ graph = SampleGraph
  /\ clock = 1
  /\ lastOp = NoOp
  /\ prevOp = NoOp
  /\ prevGraph = EmptyGraph
  /\ ChatInit

\* a caller invokes process_message
ProcessMessageFrom(inputs) ==
  /\ \E in \in inputs :
       \E r \in {process_message(in[1], in[2], in[3], driver, graph, in[4])} :
          /\ driver' = r.driver
          /\ lastMsg' = [NoMsg EXCEPT !.kind = "message", !.user_input = in[1],
                           !.history = in[2], !.user_id = in[3],
                           !.env = in[4], !.raised = r.raised,
                           !.result = r.result, !.calls = r.calls,
                           !.messages = r.messages]
  /\ UNCHANGED <<graph, clock, lastOp, prevOp, prevGraph, session, transcript>>
  /\ UNCHANGED ragVars

ProcessMessage == ProcessMessageFrom(MessageInputs)
AgentNext == ProcessMessage
AgentSpec == AgentInit /\ [][AgentNext]_vars

\* POST /chat, for sessions of at most n accepted messages
ChatUpTo(n) ==
  /\ Len(transcript) < 2 * n
  /\ \E message \in ChatMessages, env \in ChatEnvs :
       \E r \in {chat(session, message, env)} :
          /\ session' = r.session
          /\ transcript' = IF r.status = 200
                           THEN transcript \o LastN(r.session, 2)
                           ELSE transcript
          /\ lastMsg' = [NoMsg EXCEPT !.kind = "chat", !.user_input = message,
                           !.history = session, !.env = env,
                           !.result.response = r.response,
                           !.calls = r.calls, !.messages = r.messages,
                           !.status = r.status]
  /\ UNCHANGED graphVars
  /\ UNCHANGED ragVars

\* POST /chat
Chat == ChatUpTo(MaxChats)

\* POST /new_session
NewSession ==
  /\ session' = <<>>
  /\ transcript' = <<>>
  /\ lastMsg' = [NoMsg EXCEPT !.kind = "reset", !.history = session]
  /\ UNCHANGED graphVars
  /\ UNCHANGED ragVars

\* process_message is handed a history by its caller
ProcessLongHistory == ProcessMessageFrom(HistoryInputs)

SessionNext == Chat \/ NewSession \/ ProcessLongHistory
SessionSpec == AgentInit /\ [][SessionNext]_vars

\* POST /save_entry reaches JournalService.save_entry
SaveEntry ==
  /\ Cardinality(journal) < MaxEntries
  /\ \E u \in {"u1", "u2"}, summary \in Summaries, outcome \in {"ok", "throws"} :
       \E r \in {save_entry(journal, u, summary, Cardinality(journal) + 1,
                            outcome)} :
          journal' = r.journal
  /\ UNCHANGED <<lastSearch, lastChunks, vectors, requests>>
  /\ UNCHANGED graphVars
  /\ UNCHANGED connVars
  /\ UNCHANGED chatVars

\* a caller invokes search_similar_entries
SearchSimilar ==
  /\ \E in \in SearchInputs :
       \E r \in {SearchSimilarEntries(journal, in[1], in[2], in[3], in[4])} :
          lastSearch' = [NoSearch EXCEPT !.kind = "search", !.user_id = in[1],
                           !.query = in[2], !.limit = in[3], !.env = in[4],
                           !.journal = journal, !.success = r.success,
                           !.error = r.error, !.results = r.results,
                           !.method = r.method]
  /\ UNCHANGED <<journal, lastChunks, vectors, requests>>
  /\ UNCHANGED graphVars
  /\ UNCHANGED connVars
  /\ UNCHANGED chatVars

\* entries saved and searched
SearchNext == SaveEntry \/ SearchSimilar
SearchSpec == GraphInit /\ [][SearchNext]_vars

\* a caller invokes chunk_conversation
ChunkConversation ==
  /\ lastChunks.kind = "none"
  /\ \E n \in 0..MaxTurns :
       \E h \in Conversations(n) :
          lastChunks' = [kind |-> "chunked", conversation |-> h,
                         chunks |-> chunk_conversation(h)]
  /\ UNCHANGED <<journal, lastSearch, vectors, requests>>
  /\ UNCHANGED graphVars
  /\ UNCHANGED connVars
  /\ UNCHANGED chatVars

\* one conversation chunked
ChunkNext == ChunkConversation
ChunkSpec == GraphInit /\ [][ChunkNext]_vars

\* writes in which the statement of one item raises
InsertFaulty == InsertFrom(FaultInputs)
FaultNext == InsertFaulty
FaultSpec == GraphInit /\ [][FaultNext]_vars

\* POST /save_entry up to the insert into journal_entries: an empty session
\* is answered 400, a failed insert 500
SaveEntryInsert ==
  /\ requests.save.pc # "inserted"
  /\ requests.issued < MaxSaves
  /\ \E summary \in SessionSummaries, outcome \in InsertOutcomes :
       \E r \in {save_entry(journal, "u1", summary, requests.issued + 1,
                            outcome)} :
          /\ journal' = IF session = <<>> THEN journal ELSE r.journal
          /\ requests' =
               [requests EXCEPT
                  !.issued = IF session # <<>> /\ r.success THEN @ + 1 ELSE @,
                  !.save = [pc |-> IF session # <<>> /\ r.success
                                   THEN "inserted" ELSE "done",
                            user_id |-> "u1", conversation |-> session,
                            entry_id |-> IF session # <<>> /\ r.success
                                         THEN requests.issued + 1 ELSE 0,
                            status |-> IF session = <<>> THEN 400
                                       ELSE IF r.success THEN 0 ELSE 500,
                            embedded |-> FALSE]]
  /\ UNCHANGED <<lastSearch, lastChunks, vectors>>
  /\ UNCHANGED graphVars
  /\ UNCHANGED connVars
  /\ UNCHANGED chatVars

\* POST /save_entry from the insert on: the conversation is chunked, the
\* chunks are stored, the session is cleared and the answer is 200 whatever
\* store_embeddings returned
SaveEntryEmbed ==
  /\ requests.save.pc = "inserted"
  /\ \E outcome \in EmbeddingOutcomes :
       \E r \in {store_embeddings(vectors, requests.save.entry_id,
                                  requests.save.user_id,
                                  chunk_conversation(requests.save.conversation),
                                  outcome)} :
          /\ vectors' = r.vectors
          /\ requests' = [requests EXCEPT !.save.pc = "done",
                                          !.save.status = 200,
                                          !.save.embedded = r.success]
  /\ session' = <<>>
  /\ transcript' = <<>>
  /\ UNCHANGED <<journal, lastSearch, lastChunks, lastMsg>>
  /\ UNCHANGED graphVars
  /\ UNCHANGED connVars

\* DELETE /api/entries/<id>, first statement of delete_entry: the vectors
\* of the entry are deleted
DeleteEntryVectors ==
  /\ requests.delete.pc # "vectors deleted"
  /\ requests.deletes < MaxDeletes
  /\ \E entry_id \in 1..requests.issued, user_id \in {"u1", "u2"},
        outcome \in InsertOutcomes :
       /\ vectors' = IF outcome = "ok"
                     THEN DeleteVectors(vectors, entry_id, user_id)
                     ELSE vectors
       /\ requests' = [requests EXCEPT
                         !.deletes = @ + 1,
                         !.delete = [pc |-> IF outcome = "ok"
                                            THEN "vectors deleted" ELSE "done",
                                     user_id |-> user_id,
                                     entry_id |-> entry_id,
                                     success |-> FALSE]]
  /\ UNCHANGED <<journal, lastSearch, lastChunks>>
  /\ UNCHANGED graphVars
  /\ UNCHANGED connVars
  /\ UNCHANGED chatVars

\* DELETE /api/entries/<id>, second statement of delete_entry: the entry
\* is deleted
DeleteEntryRow ==
  /\ requests.delete.pc = "vectors deleted"
  /\ \E outcome \in InsertOutcomes :
       /\ journal' = IF outcome = "ok"
                     THEN DeleteRow(journal, requests.delete.entry_id,
                                    requests.delete.user_id)
                     ELSE journal
       /\ requests' = [requests EXCEPT !.delete.pc = "done",
                                       !.delete.success = (outcome = "ok")]
  /\ UNCHANGED <<lastSearch, lastChunks, vectors>>
  /\ UNCHANGED graphVars
  /\ UNCHANGED connVars
  /\ UNCHANGED chatVars

\* POST /chat in a session that is saved after a few messages
ChatBriefly == ChatUpTo(MaxSessionChats)

\* one browser session chats, saves its entries and deletes entries, the
\* requests served concurrently
EntryNext ==
  \/ ChatBriefly
  \/ SaveEntryInsert
  \/ SaveEntryEmbed
  \/ DeleteEntryVectors
  \/ DeleteEntryRow
EntrySpec == GraphInit /\ [][EntryNext]_vars

\* <<message, surroundings>> of the calls of process_message made for the
\* session: a greeting, a message answered, one whose generation raises and
\* one whose graph query meets a dropped connection
SessionMessages ==
  {<<Hi, BaseEnv>>, <<AlIsSad, BaseEnv>>,
   <<AlIsSad, [BaseEnv EXCEPT !.gen = "throws"]>>,
   <<AlIsSad, [BaseEnv EXCEPT !.graph = [CleanEnv EXCEPT !.connFails = 1]]>>}

\* process_message, wrongly appending the message to the history it was
\* given and storing the extracted entities in the graph
ProcessSessionMessageStoring ==
  /\ \E in \in SessionMessages :
       \E r \in {process_message(in[1], session, "u1", driver, graph, in[2])} :
          /\ driver' = r.driver
          /\ lastMsg' = [NoMsg EXCEPT !.kind = "message", !.user_input = in[1],
                           !.history = session, !.user_id = "u1",
                           !.env = in[2], !.raised = r.raised,
                           !.result = r.result, !.calls = r.calls,
                           !.messages = r.messages]
          /\ session' = session \o <<Turn("user", in[1])>>
          /\ graph' = IF r.result.success /\ r.result.intent # "greeting"
                      THEN MergeBase(graph, "u1", "e9", NoText, clock + 1)
                      ELSE graph
  /\ UNCHANGED <<clock, lastOp, prevOp, prevGraph, transcript>>
  /\ UNCHANGED ragVars

\* a caller invokes process_message with the session's conversation history
ProcessSessionMessage ==
  /\ \E in \in SessionMessages :
       \E r \in {process_message(in[1], session, "u1", driver, graph, in[2])} :
          /\ driver' = r.driver
          /\ lastMsg' = [NoMsg EXCEPT !.kind = "message", !.user_input = in[1],
                           !.history = session, !.user_id = "u1",
                           !.env = in[2], !.raised = r.raised,
                           !.result = r.result, !.calls = r.calls,
                           !.messages = r.messages]
  /\ UNCHANGED <<graph, clock, lastOp, prevOp, prevGraph, session, transcript>>
  /\ UNCHANGED ragVars

\* one browser session chats and saves its entries while process_message
\* is called with its history; the graph holds one entry
MemoryNext ==
  \/ ChatBriefly
  \/ ProcessSessionMessage
  \/ SaveEntryInsert
  \/ SaveEntryEmbed
MemorySpec == AgentInit /\ [][MemoryNext]_vars

\* Neo4jService._initialize_driver on the driver objects: the object
\* self.driver refers to is closed, and self.driver becomes a new object, or
\* None when the connection cannot be made (outcome "up" or "none")
InitializeDriver(h, outcome) ==
  [current |-> IF outcome = "up" THEN h.made + 1 ELSE 0,
   closed |-> h.closed \cup ({h.current} \ {0}),
   made |-> IF outcome = "up" THEN h.made + 1 ELSE h.made]

\* self.driver as the calls served one at a time see it
DriverOf(h) == IF h.current = 0 THEN "none" ELSE "up"

\* a call of get_user_graph_context returns
Returned(p, success, error) ==
  [p EXCEPT !.pc = "done", !.using = 0, !.success = success, !.error = error]

\* a thread enters get_user_graph_context, called by a request or by the
\* retry of the call it serves: `if not self.driver`
GraphQueryBegin(t) ==
  /\ \E entered \in {IF pipelines[t].pc = "enter" THEN pipelines[t]
                      ELSE [NoPipeline EXCEPT !.attempts = 1]} :
       pipelines' =
         [pipelines EXCEPT
            ![t] = IF handles.current = 0
                   THEN Returned(entered, FALSE, "Neo4j not configured")
                   ELSE [entered EXCEPT !.pc = "ensure"]]
  /\ pipelines[t].pc \in {"idle", "done", "enter"}
  /\ pipelines[t].pc # "enter" => clock < MaxOps
  /\ clock' = IF pipelines[t].pc = "enter" THEN clock ELSE clock + 1
  /\ UNCHANGED <<driver, graph, lastOp, prevOp, prevGraph, handles>>
  /\ UNCHANGED chatVars
  /\ UNCHANGED <<journal, lastSearch, lastChunks, vectors, requests>>

\* the thread runs _ensure_connection: the probe on self.driver, and
\* _initialize_driver when it fails or when self.driver is None by now
EnsureConnection(t) ==
  /\ pipelines[t].pc = "ensure"
  /\ \E probe \in {"ok", "lost"}, outcome \in {"up", "none"} :
       /\ handles.current = 0 => probe = "lost"
       /\ probe = "lost" => handles.made <= MaxConnFails
       /\ probe = "ok" => outcome = "up"
       /\ handles' = IF probe = "ok" THEN handles
                     ELSE InitializeDriver(handles, outcome)
       /\ pipelines' =
            [pipelines EXCEPT
               ![t] = IF probe = "ok"
                         \/ (handles.current # 0 /\ outcome = "up")
                      THEN [@ EXCEPT !.pc = "open"]
                      ELSE Returned(@, FALSE, "Neo4j connection unavailable")]
  /\ driver' = DriverOf(handles')
  /\ UNCHANGED <<graph, clock, lastOp, prevOp, prevGraph>>
  /\ UNCHANGED chatVars
  /\ UNCHANGED <<journal, lastSearch, lastChunks, vectors, requests>>

\* the thread runs `with self.driver.session() as session`: it holds a
\* session of the object self.driver refers to now; None has no session and
\* the AttributeError ends the call in the except branch
OpenSession(t) ==
  /\ pipelines[t].pc = "open"
  /\ pipelines' =
       [pipelines EXCEPT
          ![t] = IF handles.current = 0
                 THEN Returned(@, FALSE, "AttributeError")
                 ELSE [@ EXCEPT !.pc = "query", !.using = handles.current]]
  /\ UNCHANGED graphVars
  /\ UNCHANGED chatVars
  /\ UNCHANGED <<journal, lastSearch, lastChunks, vectors, requests, handles>>

\* the thread runs its queries on the session it holds.  On a closed driver
\* object they raise; a connection error calls _initialize_driver and, when
\* that made a driver, get_user_graph_context again
RunQueries(t) ==
  /\ pipelines[t].pc = "query"
  /\ \E out \in {"ok", "connection", "error"}, outcome \in {"up", "none"} :
       /\ pipelines[t].using \in handles.closed => out # "ok"
       /\ out = "connection" => handles.made <= MaxConnFails
       /\ out # "connection" => outcome = "up"
       /\ handles' = IF out = "connection"
                     THEN InitializeDriver(handles, outcome)
                     ELSE handles
       /\ pipelines' =
            [pipelines EXCEPT
               ![t] = IF out = "ok" THEN Returned(@, TRUE, "")
                      ELSE IF out = "connection" /\ outcome = "up"
                      THEN [@ EXCEPT !.pc = "enter", !.using = 0,
                                     !.attempts = @ + 1]
                      ELSE Returned(@, FALSE, out)]
  /\ driver' = DriverOf(handles')
  /\ UNCHANGED <<graph, clock, lastOp, prevOp, prevGraph>>
  /\ UNCHANGED chatVars
  /\ UNCHANGED <<journal, lastSearch, lastChunks, vectors, requests>>

\* two threads call get_user_graph_context on the one Neo4jService
ConnNext ==
  \E t \in Threads :
     \/ GraphQueryBegin(t)
     \/ EnsureConnection(t)
     \/ OpenSession(t)
     \/ RunQueries(t)
ConnSpec == GraphInit /\ [][ConnNext]_vars

(***************************************************************************)
(* Properties of the graph store                                           *)
(***************************************************************************)
TypedLabels == {"Person", "Organization", "Event", "Place", "Date", "Emotion"}

\* the last operation was a graph write that the backend committed
Wrote == lastOp.kind = "insert" /\ lastOp.success

\* the last operation was a graph write that met no backend fault
CleanWrite ==
  /\ lastOp.kind = "insert"
  /\ lastOp.env = CleanEnv
  /\ lastOp.error # "Neo4j not configured"

\* C5: for each entity type there is at most one node per lowercase-normalized
\* name, and every name a committed write submitted resolves to exactly one
\* node of its type, whatever its letter case.
C5_OneNodePerNormalizedName ==
  /\ \A n, m \in graph.nodes :
       (n.label \in TypedLabels /\ m.label = n.label
        /\ Lower(n.name) = Lower(m.name)) => n.id = m.id
  /\ Wrote =>
       /\ \A i \in 1..Len(lastOp.call.entities) :
            LET en == lastOp.call.entities[i]
                label == entity_type_map(UpperType(en.type))
            IN (label # "" /\ Strip(en.name) # NoText) =>
                 Cardinality({n \in graph.nodes :
                                n.label = label
                                /\ Lower(n.name) = Lower(Strip(en.name))}) = 1
       /\ \A i \in 1..Len(lastOp.call.emotions) :
            LET em == lastOp.call.emotions[i]
            IN Strip(em.type) # NoText =>
                 Cardinality({n \in graph.nodes :
                                n.label = "Emotion"
                                /\ Lower(n.name) = Lower(Strip(em.type))}) = 1

\* C5 witness: names differing only by case were written by two different
\* calls and by one call, and one Person node holds them
C5_Witness ==
  /\ Wrote /\ prevOp.kind = "insert" /\ prevOp.success
  /\ prevOp.call.entities = <<Ent("person", al)>>
  /\ lastOp.call.entities = <<Ent("PERSON", Al), Ent("person", al)>>
  /\ Cardinality({n \in graph.nodes : n.label = "Person"}) = 1

\* what a write leaves of the graph when properties are ignored: the nodes
\* with their identity and key, the edges with their identity and endpoints
Shape(g) ==
  [nodes |-> {<<n.id, n.label, n.name, n.entry_id,
                IF n.label = "User" THEN n.user_id ELSE "">> : n \in g.nodes},
   edges |-> {<<e.id, e.kind, e.src, e.dst>> : e \in g.edges}]

\* the last two operations were the same graph write, and the first committed
Repeated ==
  /\ lastOp.kind = "insert" /\ prevOp.kind = "insert"
  /\ lastOp.call = prevOp.call
  /\ prevOp.success

\* C6: a graph write repeated with identical arguments leaves the nodes and
\* edges the first run left: nothing is added, only properties change.
C6_RepeatAddsNothing == Repeated => Shape(graph) = Shape(prevGraph)

\* C6 witness: a committed write of two entities and a relationship between
\* them was repeated and committed again; only timestamps changed
C6_Witness ==
  /\ Repeated /\ lastOp.success
  /\ lastOp.call.relationships = <<R_typed>>
  /\ \E e \in graph.edges : e.kind = "RELATES_TO"
  /\ \E e \in graph.edges : e.kind = "MENTIONS"
  /\ graph # prevGraph

\* the explicit type field names a known type
C7_TypeGiven(t) ==
  LowerType(t) \in {"person", "organization", "org", "event", "place",
                    "date", "user"}

\* the name is the name of an entity of the call that has a graph type
C7_NameInCall(name, entities) ==
  \E i \in 1..Len(entities) :
    /\ Lower(Strip(entities[i].name)) = Lower(Strip(name))
    /\ UpperType(entities[i].type) \in {"PERSON", "ORG", "EVENT", "PLACE", "DATE"}

\* the from-type or the to-type of the relationship cannot be resolved
C7_Unresolved(rel, entities) ==
  \/ ~C7_TypeGiven(rel.from_type) /\ ~C7_NameInCall(RelSource(rel), entities)
  \/ ~C7_TypeGiven(rel.to_type) /\ ~C7_NameInCall(RelTarget(rel), entities)

\* the call without its unresolved relationships
C7_Resolvable(call) ==
  [call EXCEPT !.relationships =
     SelectSeq(@, LAMBDA r : ~C7_Unresolved(r, call.entities))]

\* no emotion of the call makes the intensity conversion overflow
C7_FiniteIntensities(call) ==
  \A i \in 1..Len(call.emotions) : call.emotions[i].intensity.kind # "inf"

\* C7: a relationship with an unresolvable endpoint type adds no RELATES_TO
\* edge and no node; the entities and emotions of the call are written all
\* the same and the call succeeds: the call acts as if the relationship had
\* not been submitted.
C7_UnresolvedRelationshipDropped ==
  (/\ CleanWrite
   /\ C7_FiniteIntensities(lastOp.call)
   /\ \E i \in 1..Len(lastOp.call.relationships) :
        C7_Unresolved(lastOp.call.relationships[i], lastOp.call.entities))
  =>
  LET call == lastOp.call
      entry == {n \in graph.nodes : n.label = "Entry"
                                    /\ n.entry_id = call.entry_id}
      mentions(x) == \E e \in graph.edges, en \in entry :
                       e.kind = "MENTIONS" /\ e.src = en.id /\ e.dst = x.id
      feels(x) == \E e \in graph.edges, en \in entry :
                    e.kind = "FEELS" /\ e.src = en.id /\ e.dst = x.id
  IN /\ lastOp.success
     /\ graph = _insert_graph_tx(prevGraph, C7_Resolvable(call), clock, "ok",
                                 NoFault).g
     /\ (\A i \in 1..Len(call.relationships) :
           C7_Unresolved(call.relationships[i], call.entities))
        => /\ {e \in graph.edges : e.kind = "RELATES_TO"}
                = {e \in prevGraph.edges : e.kind = "RELATES_TO"}
           /\ lastOp.relationships_inserted = 0
     /\ \A n \in graph.nodes :
          (n.id \notin {m.id : m \in prevGraph.nodes}) =>
            \/ n.label \in {"User", "Entry"}
            \/ \E i \in 1..Len(call.entities) :
                 /\ n.name = Lower(Strip(call.entities[i].name))
                 /\ n.label = entity_type_map(UpperType(call.entities[i].type))
            \/ \E i \in 1..Len(call.events) :
                 n.label = "Event" /\ n.name = Lower(Strip(call.events[i].name))
            \/ \E i \in 1..Len(call.emotions) :
                 n.label = "Emotion"
                 /\ n.name = Lower(Strip(call.emotions[i].type))
     /\ \A i \in 1..Len(call.entities) :
          LET en == call.entities[i]
              label == entity_type_map(UpperType(en.type))
          IN (label # "" /\ Strip(en.name) # NoText) =>
               \E x \in graph.nodes :
                 x.label = label /\ x.name = Lower(Strip(en.name)) /\ mentions(x)
     /\ \A i \in 1..Len(call.emotions) :
          Strip(call.emotions[i].type) # NoText =>
            \E x \in graph.nodes :
              /\ x.label = "Emotion" /\ feels(x)
              /\ x.name = Lower(Strip(call.emotions[i].type))

\* C7 witness: a write with an entity, an emotion and a relationship whose
\* from-type is unresolvable committed; both endpoints exist as nodes, the
\* entity and the emotion were written and no edge joins the endpoints
C7_Witness ==
  /\ Wrote
  /\ lastOp.call.relationships = <<R_halfTyped>>
  /\ lastOp.call.emotions # <<>>
  /\ lastOp.entities_inserted = 1 /\ lastOp.emotions_inserted = 1
  /\ MatchByName(graph.nodes, "Person", al) # {}
  /\ MatchByName(graph.nodes, "Organization", <<"b", "o">>) # {}
  /\ MatchByName(graph.nodes, "Emotion", sad) # {}
  /\ {e \in graph.edges : e.kind = "RELATES_TO"} = {}

\* the intensity is not a number: null, or a string that is not made of a
\* sign, digits, a decimal point and blanks
C8_NonNumeric(x) ==
  \/ x.kind = "null"
  \/ x.kind = "str"
     /\ \/ Strip(x.s) = NoText
        \/ \E i \in 1..Len(x.s) : x.s[i] \notin Digits \cup {"-", "+", ".", " "}

\* the emotion of the call that is written last to the Emotion node of em
C8_LastFor(call, i) ==
  /\ Strip(call.emotions[i].type) # NoText
  /\ \A j \in (i + 1)..Len(call.emotions) :
       Lower(Strip(call.emotions[j].type)) # Lower(Strip(call.emotions[i].type))

\* the intensity stored on the Emotion node written for emotion i of the call
C8_Stored(call, i) ==
  {n.intensity : n \in MatchByName(graph.nodes, "Emotion",
                                   Lower(Strip(call.emotions[i].type)))}

\* C8: every Emotion node stores an integer intensity in 1..5, and an emotion
\* submitted with a missing or non-numeric intensity is stored with 3.
C8_IntensityInRange ==
  /\ \A n \in graph.nodes : n.label = "Emotion" => n.intensity \in 1..5
  /\ Wrote =>
       \A i \in 1..Len(lastOp.call.emotions) :
         LET x == lastOp.call.emotions[i].intensity
         IN (C8_LastFor(lastOp.call, i)
             /\ (x.kind = "missing" \/ C8_NonNumeric(x)))
            => C8_Stored(lastOp.call, i) = {3}

\* C8 witness: one committed write stored a missing intensity, another a
\* non-numeric one
C8_Witness ==
  /\ Wrote /\ prevOp.kind = "insert" /\ prevOp.success
  /\ prevOp.call.emotions = <<Emo(Sad, IntVal(7))>>
  /\ lastOp.call.emotions = <<Emo(Sad, StrVal(<<"h", "i">>))>>
  /\ \E n \in graph.nodes : n.label = "Emotion" /\ n.intensity = 3

\* the numeric value of a finite numeric intensity, in tenths
C9_Tenths(x) ==
  CASE x.kind = "int" -> 10 * x.v
    [] x.kind = "float" -> x.v
    [] x.kind = "str" -> 10 * PyInt(x).v

\* the intensity is a finite number
C9_Finite(x) ==
  \/ x.kind \in {"int", "float"}
  \/ x.kind = "str" /\ PyInt(x).ok

\* the intensity is a number outside [1,5]
C9_OutOfRange(x) ==
  \/ x.kind = "inf"
  \/ C9_Finite(x) /\ (C9_Tenths(x) < 10 \/ C9_Tenths(x) > 50)

\* C9 as claimed: an intensity outside [1,5], or a non-numeric one, is stored
\* as 3.
C9_OutOfRangeStoredAs3 ==
  Wrote =>
    \A i \in 1..Len(lastOp.call.emotions) :
      LET x == lastOp.call.emotions[i].intensity
      IN (C8_LastFor(lastOp.call, i) /\ (C9_OutOfRange(x) \/ C8_NonNumeric(x)))
         => C8_Stored(lastOp.call, i) = {3}

\* C9 as amended: a finite numeric intensity below 1 is stored as 1 and one
\* above 5 as 5 (the nearest bound); a non-numeric one is stored as 3.
C9_OutOfRangeClamped ==
  Wrote =>
    \A i \in 1..Len(lastOp.call.emotions) :
      LET x == lastOp.call.emotions[i].intensity
      IN C8_LastFor(lastOp.call, i) =>
           /\ (C9_Finite(x) /\ C9_Tenths(x) < 10)
                => C8_Stored(lastOp.call, i) = {1}
           /\ (C9_Finite(x) /\ C9_Tenths(x) > 50)
                => C8_Stored(lastOp.call, i) = {5}
           /\ C8_NonNumeric(x) => C8_Stored(lastOp.call, i) = {3}

\* C9 witness: intensities above and below the range were written
C9_Witness ==
  /\ Wrote /\ prevOp.kind = "insert" /\ prevOp.success
  /\ prevOp.call.emotions = <<Emo(Sad, IntVal(0))>>
  /\ lastOp.call.emotions = <<Emo(Sad, IntVal(4)), Emo(sad, IntVal(7))>>
  /\ \E n \in graph.nodes : n.label = "Emotion" /\ n.intensity = 5

\* C10 as claimed: within one caller invocation a graph store operation is
\* attempted at most twice.
C10_AtMostTwoAttempts == lastOp.attempts <= 2


(***************************************************************************)
(* Properties of the message pipeline                                      *)
(***************************************************************************)
\* an exception was thrown inside the last process_message: the greeting's or
\* the reply's generation failed, or the extraction output could not be used
C1_Thrown ==
  LET e == lastMsg.env
      greeting == _is_greeting(lastMsg.user_input)
      rag == get_relevant_context(e)
  IN /\ lastMsg.kind = "message"
     /\ \/ greeting /\ rag.hasContext /\ e.gen = "throws"
        \/ ~greeting /\ e.gen = "throws"
        \/ ~greeting /\ e.extract.kind \in {"object", "array_object"}
             /\ \/ \E f \in DOMAIN EmptyGraphData \ {"relationships"} :
                     e.extract.data[f].state = "null"
                \/ \E i \in 1..Min(MaxPromptEmotions,
                                    Len(e.extract.data.emotions.items)) :
                     ~e.extract.data.emotions.items[i].isDict

\* C1: process_message never raises; when an exception is thrown inside it,
\* on the greeting path or on the full pipeline, it returns success == false
\* with the fixed apology as the response, and the response of any result is
\* a generated text, the default welcome or the apology, never error text
C1_FailureGivesApology ==
  lastMsg.kind = "message" =>
    /\ ~lastMsg.raised
    /\ lastMsg.result.response \in
         {Apology, DefaultWelcome, GeneratedReply, GeneratedWelcome}
    /\ lastMsg.result.response # lastMsg.result.error
    /\ C1_Thrown =>
         /\ lastMsg.result.success = FALSE
         /\ lastMsg.result.response = Apology
    /\ lastMsg.result.success = FALSE => lastMsg.result.response = Apology

\* the generation call of the full pipeline failed after every other step
\* had succeeded, and the apology came back
C1_Witness ==
  /\ C1_Thrown
  /\ ~_is_greeting(lastMsg.user_input)
  /\ lastMsg.env.gen = "throws"
  /\ "generate" = lastMsg.calls[Len(lastMsg.calls)]
  /\ lastMsg.result.response = Apology
  /\ lastMsg.result.error = "generation failed"

\* the extraction output is the empty structure or one whose fields are lists
\* of names and of emotion objects
C2_UsableExtraction(x) ==
  \/ x.kind \notin {"object", "array_object"}
  \/ /\ \A f \in DOMAIN x.data \ {"relationships"} : x.data[f].state # "null"
     /\ \A i \in 1..Len(x.data.emotions.items) : x.data.emotions.items[i].isDict

C2_ExtractionFailed(x) == x.kind \in {"throws", "nonjson"}
C2_VectorFailed(e) == e.vector = "throws" /\ e.text = "throws"
C2_GraphFailed(e) == e.graph.final = "error" \/ e.graph.ping = "lost"

\* C2: on the full pipeline, when vector retrieval, the extraction call, the
\* intent call or the graph queries fail and the generation succeeds, the
\* result is a success with the generated reply, and each failed step is
\* replaced by its default: no context, empty lists, intent "general"
C2_StepFailureDoesNotAbort ==
  LET e == lastMsg.env
      r == lastMsg.result
  IN ( /\ lastMsg.kind = "message"
       /\ ~_is_greeting(lastMsg.user_input)
       /\ e.gen = "ok"
       /\ C2_UsableExtraction(e.extract) ) =>
       /\ r.success = TRUE
       /\ r.response = GeneratedReply
       /\ r.fields = ResultFields
       /\ C2_VectorFailed(e) => r.rag_context_used = FALSE
       /\ C2_ExtractionFailed(e.extract) =>
            /\ r.nlu_metadata.entities = <<>>
            /\ r.nlu_metadata.emotions = <<>>
            /\ r.nlu_metadata.relationships = JList(<<>>)
            /\ r.graph_context_used = FALSE
       /\ e.intent.kind = "throws" => r.intent = "general"
       /\ C2_GraphFailed(e) => r.graph_context_used = FALSE

\* every step before the generation failed and the reply was still generated
C2_Witness ==
  /\ lastMsg.kind = "message"
  /\ ~_is_greeting(lastMsg.user_input)
  /\ C2_VectorFailed(lastMsg.env)
  /\ C2_ExtractionFailed(lastMsg.env.extract)
  /\ lastMsg.env.intent.kind = "throws"
  /\ lastMsg.calls = <<"vector_search", "text_search", "extract", "intent",
                       "generate">>
  /\ lastMsg.result.success
  /\ lastMsg.result.intent = "general"


C3_Bypassed == {"extract", "infer", "intent", "graph_query"}

\* C3: for every message greeting detection accepts, process_message calls
\* neither the extraction, nor the intent classification, nor the graph, and
\* a successful result has an empty nlu_metadata, intent "greeting" and
\* graph_context_used false
C3_GreetingBypassesExtraction ==
  (lastMsg.kind = "message" /\ _is_greeting(lastMsg.user_input)) =>
    /\ \A i \in 1..Len(lastMsg.calls) : lastMsg.calls[i] \notin C3_Bypassed
    /\ lastMsg.result.success =>
         /\ lastMsg.result.nlu_metadata = NoMetadata
         /\ lastMsg.result.nlu_metadata.keys = {}
         /\ lastMsg.result.intent = "greeting"
         /\ lastMsg.result.graph_context_used = FALSE


\* a greeting that only contains a pattern inside a longer word, met while
\* the extraction would have returned entities, answered successfully
C3_Witness ==
  /\ lastMsg.kind = "message"
  /\ lastMsg.user_input = ThisIsAl
  /\ _is_greeting(lastMsg.user_input)
  /\ lastMsg.env.extract = X_two
  /\ lastMsg.result.success
  /\ lastMsg.result.response = GeneratedWelcome
  /\ lastMsg.calls = <<"vector_search", "generate">>

(***************************************************************************)
(* Properties of the chat session                                          *)
(***************************************************************************)
\* the conversation-history part of the message list of the last request
C4_HistoryPart ==
  IF Len(lastMsg.messages) < 2 THEN <<>>
  ELSE SubSeq(lastMsg.messages, 2, Len(lastMsg.messages) - 1)

\* s[-n:] written out position by position
C4_IsLast(part, whole, n) ==
  /\ Len(part) = IF Len(whole) < n THEN Len(whole) ELSE n
  /\ \A i \in 1..Len(part) : part[i] = whole[Len(whole) - Len(part) + i]

\* C4: after any chat requests and resets the session holds at most 20
\* turns, the most recent ones, and the history part of every message list
\* handed to the generation holds at most 10 turns, the most recent ones of
\* the supplied history, however long that history is
C4_HistoryIsBounded ==
  /\ Len(session) <= 20
  /\ C4_IsLast(session, transcript, 20)
  /\ Len(C4_HistoryPart) <= 10
  /\ lastMsg.messages # <<>> => C4_IsLast(C4_HistoryPart, lastMsg.history, 10)

\* the session was truncated by a chat request, and a history of 25 turns
\* was supplied to process_message
C4_Witness ==
  /\ Len(transcript) > 20
  /\ Len(session) = 20
  /\ lastMsg.kind = "message"
  /\ Len(lastMsg.history) = LongHistory
  /\ Len(C4_HistoryPart) = 10
  /\ "generate" = lastMsg.calls[Len(lastMsg.calls)]


(***************************************************************************)
(* Properties of the graph store's failure handling                        *)
(***************************************************************************)
\* the user of the last read has an Entry node
C11_HasEntries ==
  \E n \in prevGraph.nodes :
    n.label = "Entry" /\ n.user_id = lastOp.call.user_id

\* what the backend does to the attempts of the last operation: a
\* reconnection fails, or the attempts go on failing after the reconnections
C11_KeepsFailing ==
  \/ lastOp.env.reconnFailAt \in 1..lastOp.env.connFails
  \/ lastOp.env.final = "error"

\* the last operation met a backend that is not configured, cannot be
\* reached, or keeps failing after reconnection
C11_BackendDown ==
  \/ lastOp.driver = "none"
  \/ lastOp.kind = "insert" /\ C11_KeepsFailing
  \/ lastOp.kind = "context" /\ lastOp.env.ping = "lost"
  \/ /\ lastOp.kind = "context"
     /\ lastOp.env.ping = "ok"
     /\ ~lastOp.env.countFails
     /\ C11_HasEntries
     /\ C11_KeepsFailing

C12_ColdRead == lastOp.kind = "context" /\ ~C11_HasEntries

\* C12 as claimed: a read for a user who has no Entry node returns success
\* with an empty context and no entries, never an error result, and does
\* not run the neighbourhood query.
C12_ColdReadSucceeds ==
  C12_ColdRead
    => /\ lastOp.success
       /\ lastOp.error = ""
       /\ lastOp.context = NoContext
       /\ lastOp.entries = <<>>
       /\ lastOp.attempts = 0

\* C12: on a backend that is configured and answers the liveness probe (at
\* once or after a reconnection), a read for a user who has no Entry node
\* returns success with an empty context and no entries, whatever the query
\* text, and does not run the neighbourhood query.
C12_ColdReadOnReachableBackend ==
  (C12_ColdRead /\ lastOp.driver = "up" /\ lastOp.env.ping # "lost")
    => /\ lastOp.success
       /\ lastOp.error = ""
       /\ lastOp.context = NoContext
       /\ lastOp.entries = <<>>
       /\ lastOp.attempts = 0

\* a read for a user without entries while another user has one
C12_Witness ==
  /\ C12_ColdRead
  /\ lastOp.driver = "up"
  /\ \E n \in prevGraph.nodes : n.label = "Entry"
  /\ lastOp.success
  /\ lastOp.attempts = 0
  /\ lastOp.query = Bo


(***************************************************************************)
(* Properties of the journal search and of the chunking                    *)
(***************************************************************************)
\* the searching user's rows whose summary contains the query text, in
\* either case, newest first
C13_Containing ==
  NewestFirst({r \in lastSearch.journal :
                 /\ r.user_id = lastSearch.user_id
                 /\ Contains(Lower(r.summarized_text), Lower(lastSearch.query))})

\* C13 as claimed, the text search itself granted to succeed: when the
\* similarity search throws, search_similar_entries returns success with
\* method "text_search" and, as results, the requesting user's entries whose
\* summary contains the query text, most recent first, at most limit.
C13_FallbackReturnsContainingEntries ==
  (/\ lastSearch.kind = "search"
   /\ lastSearch.env.vector = "throws"
   /\ lastSearch.env.text = "ok")
    => /\ lastSearch.success
       /\ lastSearch.method = "text_search"
       /\ lastSearch.results = FirstN(C13_Containing, lastSearch.limit)


\* the line of one turn of a conversation of user and assistant turns
C14_Line(turn) ==
  (IF turn.role = "user" THEN UserPrefix ELSE AssistantPrefix) \o turn.content

\* the positions of the user turns, in order
C14_UserTurns(h) ==
  SelectSeq([i \in 1..Len(h) |-> i], LAMBDA i : h[i].role = "user")

\* one chunk per user turn: its line and the lines of the turns up to the
\* next user turn, joined by line breaks
C14_Exchanges(h) ==
  LET Upto(users, k) == IF k < Len(users) THEN users[k + 1] - 1 ELSE Len(h)
      Chunks(users) ==
        [k \in 1..Len(users) |->
           JoinLines([j \in 1..(Upto(users, k) - users[k] + 1) |->
                        C14_Line(h[users[k] + j - 1])])]
  IN Chunks(C14_UserTurns(h))

\* the last chunking was of a conversation of user and assistant turns that
\* starts with a user turn
C14_UserLed ==
  /\ lastChunks.kind = "chunked"
  /\ lastChunks.conversation # <<>>
  /\ lastChunks.conversation[1].role = "user"
  /\ \A i \in 1..Len(lastChunks.conversation) :
       lastChunks.conversation[i].role \in {"user", "assistant"}

\* no content of the last conversation is empty or ends in whitespace
C14_CleanContents ==
  \A i \in 1..Len(lastChunks.conversation) :
    /\ lastChunks.conversation[i].content # <<>>
    /\ RStrip(lastChunks.conversation[i].content)
         = lastChunks.conversation[i].content

\* C14 as claimed: on a conversation that starts with a user turn the chunks
\* are, in order, one per user turn, each the line "User: <content>" followed
\* by one line "Assistant: <content>" per assistant turn up to the next user
\* turn.
C14_OneChunkPerUserTurn ==
  C14_UserLed => lastChunks.chunks = C14_Exchanges(lastChunks.conversation)

\* C14: the same, for conversations in which no content is empty or ends in
\* whitespace.
C14_OneChunkPerUserTurnCleanContents ==
  (C14_UserLed /\ C14_CleanContents)
    => lastChunks.chunks = C14_Exchanges(lastChunks.conversation)

\* the conversation user A, assistant B, user B, assistant A chunked into
\* "User: A\nAssistant: B" and "User: B\nAssistant: A"
C14_Witness ==
  /\ lastChunks.conversation
       = <<Turn("user", <<"A">>), Turn("assistant", <<"B">>),
           Turn("user", <<"B">>), Turn("assistant", <<"A">>)>>
  /\ lastChunks.chunks
       = <<UserPrefix \o <<"A", "\n">> \o AssistantPrefix \o <<"B">>,
           UserPrefix \o <<"B", "\n">> \o AssistantPrefix \o <<"A">> >>


(***************************************************************************)
(* Properties of the language understanding                                *)
(***************************************************************************)
\* C15 as claimed: whatever the extraction model returns, process_text does
\* not raise and returns a result with entities, events, emotions,
\* relationships and intent; when nothing parses as a JSON object all the
\* extracted lists are empty.
C15_ProcessTextAlwaysReturns ==
  LET Structured(x, r) ==
        /\ ~r.raised
        /\ {"entities", "events", "emotions", "relationships", "intent"}
             \subseteq r.result.keys
        /\ x.kind \notin {"object", "array_object"}
             => /\ r.result.entities = <<>>
                /\ r.result.events = <<>>
                /\ r.result.emotions = <<>>
                /\ r.result.relationships = JList(<<>>)
  IN (lastMsg.kind = "message" /\ ~_is_greeting(lastMsg.user_input))
       => Structured(lastMsg.env.extract, process_text(lastMsg.env))


\* the labels an answer of the intent classification names
C16_Named(answer) ==
  {i \in 1..Len(valid_intents) :
     \E j \in 1..Len(answer.words) : answer.words[j] = valid_intents[i]}

\* C16 as claimed: classify_intent returns one of the five labels, and
\* returns "general" whenever the call throws or its answer names more than
\* one label or none.
C16_GeneralWhenUnclear ==
  LET Labelled(answer, intent) ==
        /\ \E i \in 1..Len(valid_intents) : intent = valid_intents[i]
        /\ (answer.kind = "throws" \/ Cardinality(C16_Named(answer)) # 1)
             => intent = "general"
  IN (lastMsg.kind = "message" /\ lastMsg.result.success
      /\ ~_is_greeting(lastMsg.user_input))
       => /\ Labelled(lastMsg.env.intent, classify_intent(lastMsg.env.intent))
          /\ lastMsg.result.intent = classify_intent(lastMsg.env.intent)


(***************************************************************************)
(* Properties of the results of process_message                            *)
(***************************************************************************)
\* C17 as claimed: every result of process_message, of the greeting path, of
\* the full pipeline and of a failure, carries success, response,
\* nlu_metadata, intent, rag_context_used and graph_context_used.
C17_EveryResultHasAllFields ==
  lastMsg.kind = "message" => ResultFields \subseteq lastMsg.result.fields


(***************************************************************************)
(* Properties of the graph store: users, base write, item failures         *)
(***************************************************************************)
\* the last operation was a committed write under an entry id that no other
\* user's Entry node has
C18_WriteOfOwnEntry ==
  /\ Wrote
  /\ ~\E n \in prevGraph.nodes :
        /\ n.label = "Entry"
        /\ n.entry_id = lastOp.call.entry_id
        /\ n.user_id # lastOp.call.user_id

\* C18 as claimed: a write for one user changes the result of
\* get_user_graph_context of no other user, for any query text: the entries
\* returned, the emotions and entities listed with them, and the context text
\* are what they were before the write.
C18_WriteLeavesOtherUsersContext ==
  C18_WriteOfOwnEntry
    => \A a \in {"u1", "u2"} \ {lastOp.call.user_id} :
         \A q \in {Al, Bo, Sad} :
           /\ GraphContextQuery(graph, a, q, GraphQueryLimit)
                = GraphContextQuery(prevGraph, a, q, GraphQueryLimit)
           /\ FormatContext(GraphContextQuery(graph, a, q, GraphQueryLimit))
                = FormatContext(GraphContextQuery(prevGraph, a, q,
                                                  GraphQueryLimit))


\* the last operation was a write on a configured service, and nothing of it
\* is in the graph or in the counts it returned
C19_Aborted ==
  /\ ~lastOp.success
  /\ lastOp.error # ""
  /\ graph = prevGraph
  /\ lastOp.entities_inserted = 0
  /\ lastOp.emotions_inserted = 0
  /\ lastOp.relationships_inserted = 0

\* C19 as claimed: when the base write of a graph write fails, nothing
\* persists, no entity, emotion or relationship step takes effect, and the
\* call returns success = false.
C19_BaseFailureAborts ==
  (/\ lastOp.kind = "insert"
   /\ \E k \in 1..lastOp.attempts : AttemptOutcome(lastOp.env, k) # "ok")
    => C19_Aborted

\* C19: when the base write fails in the last attempt the call makes (the
\* failure is no connection error, or the reconnection fails, or the retries
\* go on failing), nothing persists, no entity, emotion or relationship step
\* takes effect, and the call returns success = false.
C19_LastBaseFailureAborts ==
  (/\ lastOp.kind = "insert"
   /\ lastOp.attempts >= 1
   /\ AttemptOutcome(lastOp.env, lastOp.attempts) # "ok")
    => C19_Aborted

\* a write whose base statement failed twice, the second time for good,
\* into a graph that holds an entry
C19_Witness ==
  /\ lastOp.kind = "insert"
  /\ lastOp.env.connFails = 1
  /\ lastOp.env.final = "error"
  /\ lastOp.attempts = 2
  /\ lastOp.call.entities # <<>>
  /\ prevGraph # EmptyGraph
  /\ C19_Aborted

\* the item of the last write whose statement raised, or whose intensity
\* cannot be converted: <<label, name>> of its node
C20_FailedItem ==
  LET call == lastOp.call
      fault == lastOp.env.fault
  IN IF \E i \in 1..Len(call.emotions) : call.emotions[i].intensity = InfVal
     THEN <<"Emotion",
            Strip(Lower((CHOOSE em \in {call.emotions[i] :
                                          i \in 1..Len(call.emotions)} :
                           em.intensity = InfVal).type))>>
     ELSE IF fault.at = "entity"
     THEN <<entities_by_type(call.entities, call.events)[fault.idx][1],
            Strip(Lower(entities_by_type(call.entities,
                                         call.events)[fault.idx][2]))>>
     ELSE IF fault.at = "emotion"
     THEN <<"Emotion", Strip(Lower(call.emotions[fault.idx].type))>>
     ELSE <<"", NoText>>

\* the last operation was a write, on a sound connection, in which the write
\* of one entity, emotion or relationship failed
C20_ItemFailed ==
  /\ lastOp.kind = "insert"
  /\ lastOp.driver = "up"
  /\ lastOp.env.connFails = 0
  /\ lastOp.env.final = "ok"
  /\ \/ lastOp.env.fault.at # "none"
     \/ \E i \in 1..Len(lastOp.call.emotions) :
          lastOp.call.emotions[i].intensity = InfVal

\* C20 as claimed: when the write of one entity, emotion or relationship
\* fails, the call returns success = true, the other items are written, and
\* the counts it returns leave the failed item out.
C20_ItemFailureIsSkipped ==
  LET Skipped(at, sound) ==
        /\ lastOp.success
        /\ lastOp.entities_inserted
             = sound.entities_inserted - (IF at = "entity" THEN 1 ELSE 0)
        /\ lastOp.emotions_inserted
             <= sound.emotions_inserted - (IF at = "emotion" THEN 1 ELSE 0)
        /\ lastOp.relationships_inserted
             <= sound.relationships_inserted
                - (IF at = "relationship" THEN 1 ELSE 0)
        /\ \A n \in sound.g.nodes :
             <<n.label, n.name>> # C20_FailedItem
               => \E m \in graph.nodes : m.label = n.label /\ m.name = n.name
  IN C20_ItemFailed
       => Skipped(lastOp.env.fault.at,
                  _insert_graph_tx(prevGraph,
                                   [lastOp.call EXCEPT !.emotions =
                                      SelectSeq(@, LAMBDA em :
                                                  em.intensity # InfVal)],
                                   clock, "ok", NoFault))

(***************************************************************************)
(* Properties of saving and deleting entries                               *)
(***************************************************************************)
\* the chunks of the conversation the last save request saved are rows of
\* journal_entry_vectors under its entry
C21_ChunksStored ==
  \A i \in 1..Len(chunk_conversation(requests.save.conversation)) :
     \E v \in vectors :
        /\ v.entry_id = requests.save.entry_id
        /\ v.user_id = requests.save.user_id
        /\ v.chunk_text = chunk_conversation(requests.save.conversation)[i]

\* the graph holds an Entry node of the user of the last save request
C21_EntryNodeStored ==
  \E n \in graph.nodes : n.label = "Entry" /\ n.user_id = requests.save.user_id

\* C21: every successful entry save updates both stores: once POST
\* /save_entry has answered 200 for an entry (and before any delete request),
\* the vector table holds the chunks of the saved conversation and the graph
\* holds the entry's Entry node.
C21_SaveUpdatesBothStores ==
  (requests.save.pc = "done" /\ requests.save.status = 200
     /\ requests.deletes = 0)
    => (C21_ChunksStored /\ C21_EntryNodeStored)

\* C21, the vector half alone: a save answered 200 has stored the chunks
C21_SaveStoresChunks ==
  (requests.save.pc = "done" /\ requests.save.status = 200
     /\ requests.deletes = 0)
    => C21_ChunksStored

\* C26: an embedding chunk never outlives its entry: every row of
\* journal_entry_vectors belongs to a row of journal_entries with the same
\* id and user, under every interleaving of a save with a delete and
\* whichever statement of delete_entry fails.
C26_NoOrphanChunk ==
  \A v \in vectors :
     \E r \in journal : r.id = v.entry_id /\ r.user_id = v.user_id

(***************************************************************************)
(* Properties of the message pipeline's branches                           *)
(***************************************************************************)
\* pattern p stands in the text t at position i as whole token(s): it is
\* preceded by the start of t or a blank and followed by the end of t or a
\* blank
C22_TokenAt(t, p, i) ==
  /\ i + Len(p) - 1 <= Len(t)
  /\ SubSeq(t, i, i + Len(p) - 1) = p
  /\ (i = 1 \/ t[i - 1] = " ")
  /\ (i + Len(p) - 1 = Len(t) \/ t[i + Len(p)] = " ")

\* the message has at most 3 tokens and holds a greeting as whole token(s),
\* in any case
C22_GreetingByTokens(text) ==
  /\ TokenCount(Strip(Lower(text))) <= 3
  /\ \E k \in 1..Len(greeting_patterns) :
       \E i \in 1..Len(Strip(Lower(text))) :
          C22_TokenAt(Strip(Lower(text)), greeting_patterns[k], i)

\* the last call of process_message took the greeting shortcut: it never
\* called the structured extraction
C22_TookShortcut ==
  \A i \in 1..Len(lastMsg.calls) : lastMsg.calls[i] # "extract"

\* C22: the greeting shortcut is taken if and only if the message has at
\* most 3 whitespace-separated tokens and contains a known greeting as whole
\* token(s), matched case-insensitively; every other message takes the full
\* pipeline.
C22_ShortcutIffGreetingToken ==
  lastMsg.kind = "message"
    => (C22_TookShortcut <=> C22_GreetingByTokens(lastMsg.user_input))

\* the step of the full pipeline a capability call belongs to
C23_Step(call) ==
  IF call \in {"vector_search", "text_search"} THEN 1
  ELSE IF call \in {"extract", "infer", "intent"} THEN 2
  ELSE IF call = "graph_query" THEN 3
  ELSE 4

\* the positions of the last call's capability calls that are a call c
C23_Positions(c) == {i \in 1..Len(lastMsg.calls) : lastMsg.calls[i] = c}

\* the entities the graph is queried for: those of the first 3 extracted
\* that have a name
C23_Queried(entities) ==
  {i \in 1..Len(entities) : i <= 3 /\ entities[i].name # NoText}

\* C23: on the full pipeline the calls of one process_message happen in the
\* order vector retrieval, extraction and intent classification, graph
\* queries (at most 3, one per extracted entity), generation; there is at
\* most one generation call and it is the last call; the call ends RESPONDED
\* with the generated text after exactly one generation call, or FAILED with
\* the apology, and no generation call follows the step that failed.
C23_StepsInOrder ==
  (lastMsg.kind = "message" /\ ~_is_greeting(lastMsg.user_input)) =>
    /\ \A i, j \in 1..Len(lastMsg.calls) :
         i < j => C23_Step(lastMsg.calls[i]) <= C23_Step(lastMsg.calls[j])
    /\ lastMsg.calls # <<>> /\ lastMsg.calls[1] = "vector_search"
    /\ Cardinality(C23_Positions("extract")) = 1
    /\ Cardinality(C23_Positions("graph_query")) <= 3
    /\ Cardinality(C23_Positions("generate")) <= 1
    /\ C23_Positions("generate") \subseteq {Len(lastMsg.calls)}
    /\ lastMsg.result.success =>
         /\ Cardinality(C23_Positions("intent")) = 1
         /\ Cardinality(C23_Positions("graph_query"))
              = Cardinality(C23_Queried(lastMsg.result.nlu_metadata.entities))
         /\ C23_Positions("generate") = {Len(lastMsg.calls)}
         /\ lastMsg.result.response = GeneratedReply
    /\ ~lastMsg.result.success =>
         /\ lastMsg.result.response = Apology
         /\ C23_Positions("generate") # {} => lastMsg.env.gen = "throws"

\* a message that named four people: three graph queries between the
\* classification and the one generation call, and a successful result
C23_Witness ==
  /\ lastMsg.kind = "message"
  /\ ~_is_greeting(lastMsg.user_input)
  /\ Len(lastMsg.result.nlu_metadata.entities) = 4
  /\ lastMsg.calls = <<"vector_search", "extract", "infer", "intent",
                       "graph_query", "graph_query", "graph_query",
                       "generate">>
  /\ lastMsg.result.success

\* a call that failed in its generation step, the last call it made
C23_FailedWitness ==
  /\ lastMsg.kind = "message"
  /\ ~_is_greeting(lastMsg.user_input)
  /\ ~lastMsg.result.success
  /\ lastMsg.calls[Len(lastMsg.calls)] = "generate"

C25_HandleKeptWhileInUse ==
  \A t \in Threads :
     pipelines[t].pc = "query" =>
        /\ pipelines[t].using \notin handles.closed
        /\ pipelines[t].using = handles.current

(***************************************************************************)
(* Properties of the graph's nodes and edges over several writes           *)
(***************************************************************************)
\* C27: the original_name of an entity or Emotion node is set once, by the
\* write that creates the node, and no later write changes it, whatever
\* display case and whichever user it writes the same normalized name with:
\* every step keeps the original_name of every typed node there is, and every
\* typed node has one, a display form of its name.
C27_OriginalNameSetOnce ==
  [][/\ \A n \in graph.nodes :
          n.label \in TypedLabels =>
            \E m \in graph'.nodes :
               m.id = n.id /\ m.original_name = n.original_name
     /\ \A m \in graph'.nodes :
          m.label \in TypedLabels =>
            /\ m.original_name # NoText
            /\ Strip(Lower(m.original_name)) = m.name]_vars

\* a node that a first write created was written again by another write
\* under another display form of its name, and kept the first form
C27_Witness ==
  /\ Wrote /\ prevOp.kind = "insert" /\ prevOp.success
  /\ \E n \in graph.nodes :
       /\ n \in prevGraph.nodes
       /\ n.label \in TypedLabels
       /\ \E i \in 1..Len(lastOp.call.entities) :
            /\ entity_type_map(UpperType(lastOp.call.entities[i].type)) = n.label
            /\ Strip(Lower(lastOp.call.entities[i].name)) = n.name
            /\ lastOp.call.entities[i].name # n.original_name

\* the same, the second write made by another user
C27_OtherUserWitness ==
  /\ C27_Witness
  /\ lastOp.call.user_id # prevOp.call.user_id

\* the nodes a relationship of a call names: labels and normalized names
C28_Endpoints(rel, entities) ==
  <<FromLabel(rel, entities), Strip(Lower(RelSource(rel))),
    ToLabel(rel, entities), Strip(Lower(RelTarget(rel)))>>

\* relationship i is the last of the call's relationships that names its
\* endpoints and is not dropped
C28_LastFor(call, i) ==
  /\ ~RelSkipped(call.relationships[i], call.entities)
  /\ \A j \in (i + 1)..Len(call.relationships) :
       \/ RelSkipped(call.relationships[j], call.entities)
       \/ C28_Endpoints(call.relationships[j], call.entities)
            # C28_Endpoints(call.relationships[i], call.entities)

\* C28: after any sequence of graph writes there is at most one RELATES_TO
\* edge for each ordered pair of nodes, every RELATES_TO edge joins two
\* existing typed nodes, and after a write the edge between the nodes a
\* relationship names carries the type of the last such relationship: a
\* later relationship for the pair updates the type and adds no edge.
C28_OneEdgePerPair ==
  /\ \A e, f \in graph.edges :
       (e.kind = "RELATES_TO" /\ f.kind = "RELATES_TO"
        /\ e.src = f.src /\ e.dst = f.dst) => e = f
  /\ \A e \in graph.edges :
       e.kind = "RELATES_TO" =>
         /\ \E a \in graph.nodes : a.id = e.src /\ a.label \in TypedLabels
         /\ \E b \in graph.nodes : b.id = e.dst /\ b.label \in TypedLabels
  /\ Wrote =>
       \A i \in 1..Len(lastOp.call.relationships) :
          C28_LastFor(lastOp.call, i) =>
            \A a \in MatchByName(graph.nodes,
                                 C28_Endpoints(lastOp.call.relationships[i],
                                               lastOp.call.entities)[1],
                                 C28_Endpoints(lastOp.call.relationships[i],
                                               lastOp.call.entities)[2]),
               b \in MatchByName(graph.nodes,
                                 C28_Endpoints(lastOp.call.relationships[i],
                                               lastOp.call.entities)[3],
                                 C28_Endpoints(lastOp.call.relationships[i],
                                               lastOp.call.entities)[4]) :
               \E e \in graph.edges :
                  /\ e.kind = "RELATES_TO" /\ e.src = a.id /\ e.dst = b.id
                  /\ e.type = RelType(lastOp.call.relationships[i])

\* two writes named the pair Al -> Bo, the second with another relation
\* type: one edge joins the pair and carries the second type
C28_Witness ==
  /\ Wrote /\ prevOp.kind = "insert" /\ prevOp.success
  /\ prevOp.call.relationships = <<R_typed>>
  /\ lastOp.call.relationships = <<R_retyped>>
  /\ Cardinality({e \in prevGraph.edges : e.kind = "RELATES_TO"}) = 1
  /\ Cardinality({e \in graph.edges : e.kind = "RELATES_TO"}) = 1
  /\ \A e \in graph.edges : e.kind = "RELATES_TO" => e.type = <<"w">>

(***************************************************************************)
(* Properties of the chunks                                                *)
(***************************************************************************)
\* the positions of a chunk at which a "User:" line begins
C29_UserLines(chunk) ==
  {i \in 1..Len(chunk) :
     /\ i = 1 \/ chunk[i - 1] = "\n"
     /\ i + 4 <= Len(chunk)
     /\ SubSeq(chunk, i, i + 4) = <<"U", "s", "e", "r", ":">>}

\* the user turns of a conversation
C29_UserTurns(h) == {i \in 1..Len(h) : h[i].role = "user"}

\* C29: every chunk chunk_conversation produces is a user-led exchange: for
\* every conversation that holds at least one user turn, wherever it stands,
\* each chunk begins with a "User:" line and holds exactly one user turn, so
\* there are as many chunks as user turns.
C29_EveryChunkUserLed ==
  (lastChunks.kind = "chunked"
     /\ C29_UserTurns(lastChunks.conversation) # {}) =>
    /\ Len(lastChunks.chunks)
         = Cardinality(C29_UserTurns(lastChunks.conversation))
    /\ \A k \in 1..Len(lastChunks.chunks) :
         /\ 1 \in C29_UserLines(lastChunks.chunks[k])
         /\ Cardinality(C29_UserLines(lastChunks.chunks[k])) = 1

(***************************************************************************)
(* Properties of the graph context query                                   *)
(***************************************************************************)
\* the typed nodes whose name contains the lowercased query text, and the
\* nodes one RELATES_TO hop from them in either direction
C30_Relevant(g, q) ==
  LET direct == {n \in g.nodes : /\ n.label \in TypedLabels
                                 /\ Contains(n.name, Strip(Lower(q)))}
  IN direct \cup
     {n \in g.nodes : \E d \in direct : \E e \in g.edges :
        /\ e.kind = "RELATES_TO"
        /\ \/ e.src = d.id /\ e.dst = n.id
           \/ e.dst = d.id /\ e.src = n.id}

\* the Entry nodes of a user that mention or feel one of those nodes
C30_Eligible(g, user_id, q) ==
  {e \in g.nodes :
     /\ e.label = "Entry"
     /\ e.user_id = user_id
     /\ \E n \in C30_Relevant(g, q) : \E m \in g.edges :
          m.kind \in {"MENTIONS", "FEELS"} /\ m.src = e.id /\ m.dst = n.id}

\* the last operation was a read that the backend answered
C30_Read ==
  /\ lastOp.kind = "context"
  /\ lastOp.success
  /\ lastOp.driver # "none"

\* C30: step 1 of the graph context query treats as a direct match every
\* typed node (Person, Organization, Event, Place, Date, Emotion) whose name
\* contains the lowercased query text, and every entry of the requesting user
\* that mentions such a node, or a node one RELATES_TO hop from it in either
\* direction, is eligible for the returned context: the entries returned are
\* newest first and at most limit, and an eligible entry is left out only
\* when limit entries at least as new were returned.
C30_TypedMatchesEligible ==
  C30_Read =>
    /\ Len(lastOp.entries) <= lastOp.limit
    /\ \A i \in 1..Len(lastOp.entries) : \A j \in i..Len(lastOp.entries) :
         lastOp.entries[i].timestamp >= lastOp.entries[j].timestamp
    /\ \A e \in C30_Eligible(graph, lastOp.call.user_id, lastOp.query) :
         \/ \E i \in 1..Len(lastOp.entries) :
              lastOp.entries[i].entry_id = e.entry_id
         \/ /\ Len(lastOp.entries) = lastOp.limit
            /\ \A i \in 1..Len(lastOp.entries) :
                 lastOp.entries[i].timestamp >= e.timestamp

====
